---- MODULE Spec2Model ----
(***************************************************************************)
(* Model of the bearcat command engine (src/src/bearcat/__init__.py):      *)
(* the execution lock around one write-then-read round trip, the response  *)
(* classification of _execute_command, the program-mode session flag and   *)
(* the relay forwarding threads.                                           *)
(*                                                                         *)
(* Text is modelled as a sequence of tokens.  A token is an indivisible    *)
(* run of characters ("VOL", "NG", "5"), a comma, or a whitespace          *)
(* character, so that strip() and split(',') are computed on the line      *)
(* itself.  A field is the sequence of tokens between two commas; the      *)
(* field <<"ERR">> is the Python string 'ERR' and <<>> is ''.              *)
(*                                                                         *)
(* The device is the environment: it answers a complete frame with at most *)
(* one line before the reader's timeout expires, or not at all.            *)
(***************************************************************************)
EXTENDS Integers, Sequences, FiniteSets, TLC

\* ---------------------------------------------------------------- bounds
MaxClients == 2        \* relay clients connected to the server socket
MaxCalls == 3          \* typed calls the local caller makes
MaxChunks == 2         \* chunks the relay clients send, all together
MaxLine == 5           \* tokens in a response line given to the classifier
MaxChanCalls == 2      \* update_channel / clear_channel calls in a row

\* ------------------------------------------------------------------ text
CR == "\r"
COMMA == ","
Whitespace == {"\r", "\n", " "}

\* str.strip(): leading and trailing whitespace removed, interior kept.
RECURSIVE LStrip(_)
LStrip(s) ==
    IF s # <<>> /\ Head(s) \in Whitespace THEN LStrip(Tail(s)) ELSE s

RECURSIVE RStrip(_)
RStrip(s) ==
    IF s # <<>> /\ s[Len(s)] \in Whitespace
    THEN RStrip(SubSeq(s, 1, Len(s) - 1))
    ELSE s

Strip(s) == RStrip(LStrip(s))

\* str.split(','): always at least one field; '' splits to [''].
RECURSIVE Split(_)
Split(s) ==
    IF \E i \in 1..Len(s) : s[i] = COMMA
    THEN LET i == CHOOSE k \in 1..Len(s) :
                      s[k] = COMMA /\ \A j \in 1..(k - 1) : s[j] # COMMA
         IN <<SubSeq(s, 1, i - 1)>> \o Split(SubSeq(s, i + 1, Len(s)))
    ELSE <<s>>

\* ','.join(fields): the fields' tokens with a comma between two fields.
RECURSIVE Join(_)
Join(fields) ==
    IF fields = <<>> THEN <<>>
    ELSE IF Len(fields) = 1 THEN Head(fields)
    ELSE Head(fields) \o <<COMMA>> \o Join(Tail(fields))

\* str.upper() on the tokens that occur; tokens without letters are fixed.
UpperTable == [vol |-> "VOL", ng |-> "NG", ok |-> "OK", Tower |-> "TOWER",
               h |-> "H", x |-> "X", cin |-> "CIN"]
Upper(t) == IF t \in DOMAIN UpperTable THEN UpperTable[t] ELSE t

\* A command field given by the caller is a one-token string.
Str(t) == <<t>>

\* ------------------------------------------------- response classification
\* The outcome of a typed call: a returned list of fields or a raised error.
Return(fields) == [kind |-> "return", value |-> fields]
Raise(err) == [kind |-> err, value |-> <<>>]

\* res_str.strip().split(',') of _execute_command, line 233-234.
res_parts_of(res_bytes) == Split(Strip(res_bytes))

\* Mutant: the echo check is made before the ERR check.
_execute_command_echo_first(command, res_bytes) ==
    LET res_parts == res_parts_of(res_bytes) IN
    IF res_parts[1] # Str(command[1]) THEN Raise("UnexpectedResultError")
    ELSE IF res_parts[1] = Str("ERR") THEN Raise("CommandNotFound")
    ELSE IF Len(res_parts) = 1 THEN Raise("UnexpectedResultError")
    ELSE IF res_parts[2] = Str("NG") THEN Raise("CommandInvalid")
    ELSE Return(SubSeq(res_parts, 2, Len(res_parts)))

\* Mutant: the echo check is missing.
_execute_command_no_echo(command, res_bytes) ==
    LET res_parts == res_parts_of(res_bytes) IN
    IF res_parts[1] = Str("ERR") THEN Raise("CommandNotFound")
    ELSE IF Len(res_parts) = 1 THEN Raise("UnexpectedResultError")
    ELSE IF res_parts[2] = Str("NG") THEN Raise("CommandInvalid")
    ELSE Return(SubSeq(res_parts, 2, Len(res_parts)))

\* Mutant: NG is looked for in the last field instead of the second.
_execute_command_ng_last(command, res_bytes) ==
    LET res_parts == res_parts_of(res_bytes) IN
    IF res_parts[1] = Str("ERR") THEN Raise("CommandNotFound")
    ELSE IF res_parts[1] # Str(command[1]) THEN Raise("UnexpectedResultError")
    ELSE IF Len(res_parts) = 1 THEN Raise("UnexpectedResultError")
    ELSE IF res_parts[Len(res_parts)] = Str("NG") THEN Raise("CommandInvalid")
    ELSE Return(SubSeq(res_parts, 2, Len(res_parts)))

\* Mutant: the whole response, echo included, is returned.
_execute_command_keep_echo(command, res_bytes) ==
    LET res_parts == res_parts_of(res_bytes) IN
    IF res_parts[1] = Str("ERR") THEN Raise("CommandNotFound")
    ELSE IF res_parts[1] # Str(command[1]) THEN Raise("UnexpectedResultError")
    ELSE IF Len(res_parts) = 1 THEN Raise("UnexpectedResultError")
    ELSE IF res_parts[2] = Str("NG") THEN Raise("CommandInvalid")
    ELSE Return(res_parts)

\* Mutant: an empty first field (a read that timed out) is taken for ERR.
_execute_command_empty_is_err(command, res_bytes) ==
    LET res_parts == res_parts_of(res_bytes) IN
    IF res_parts[1] = Str("ERR") \/ res_parts[1] = <<>> THEN Raise("CommandNotFound")
    ELSE IF res_parts[1] # Str(command[1]) THEN Raise("UnexpectedResultError")
    ELSE IF Len(res_parts) = 1 THEN Raise("UnexpectedResultError")
    ELSE IF res_parts[2] = Str("NG") THEN Raise("CommandInvalid")
    ELSE Return(SubSeq(res_parts, 2, Len(res_parts)))

\* _execute_command, lines 232-249: the response is decoded, split and
\* classified by the ordered checks; command[1] is the issued mnemonic.
_execute_command(command, res_bytes) ==
    LET res_parts == res_parts_of(res_bytes) IN
    IF res_parts[1] = Str("ERR") THEN Raise("CommandNotFound")
    ELSE IF res_parts[1] # Str(command[1]) THEN Raise("UnexpectedResultError")
    ELSE IF Len(res_parts) = 1 THEN Raise("UnexpectedResultError")
    ELSE IF res_parts[2] = Str("NG") THEN Raise("CommandInvalid")
    ELSE Return(SubSeq(res_parts, 2, Len(res_parts)))

_check_response(response, expected_values) == Len(response) = expected_values

\* Mutant: the field count is not checked.
_check_ok_any_count(response) == response[1] = Str("OK")

_check_ok(response) == _check_response(response, 1) /\ response[1] = Str("OK")

\* --------------------------------------------------------------- callers
Main == "main"                       \* the thread making the typed calls
ClientIds == <<"c1", "c2", "c3", "c4">>
Clients == {ClientIds[i] : i \in 1..MaxClients}   \* _client_listener threads
Callers == {Main} \cup Clients
NoHolder == "free"                   \* Lock() not held
Nobody == "nobody"

NoRes == [by |-> Nobody, frame |-> <<>>, line |-> <<>>]
Pending == [kind |-> "pending", value |-> <<>>]

\* cmd_str of _execute_command for a command without a name field:
\* ','.join(command).upper() + '\r'.
cmd_bytes_of(command) ==
    LET joined == Join([i \in 1..Len(command) |-> Str(command[i])])
    IN [i \in 1..Len(joined) |-> Upper(joined[i])] \o <<CR>>

\* The same for the mnemonic m followed by fields of several characters.
cmd_bytes_with(m, fields) ==
    LET joined == Join(<<Str(m)>> \o fields)
    IN [i \in 1..Len(joined) |-> Upper(joined[i])] \o <<CR>>

\* What the device may answer to a frame whose body is the bytes before
\* the carriage return: a status query is answered with a value, another
\* mnemonic, alone or followed by fields, is accepted, rejected, answered
\* with a value or unknown, anything else is unknown.
DeviceLines(body) ==
    IF body = <<"STS">>
    THEN { <<"STS", COMMA, "5", CR>> }
    ELSE IF /\ Len(body) >= 1 /\ body[1] # COMMA
            /\ Len(body) >= 2 => body[2] = COMMA
    THEN { <<body[1], COMMA, "OK", CR>>,
           <<body[1], COMMA, "NG", CR>>,
           <<body[1], COMMA, "5", CR>>,
           <<"ERR", CR>> }
    ELSE { <<"ERR", CR>> }

VARIABLES
    cmd_lock,          \* self._cmd_lock: its holder, or NoHolder
    in_program_mode,   \* self._in_program_mode
    devbuf,            \* bytes the device got since the last carriage return
    rx,                \* serial input buffer: lines not yet read
    pc,                \* each caller's position
    req,               \* each caller's `command` in _execute_command_raw
    wpos,              \* bytes of req already written
    res,               \* each caller's return value of _execute_command_raw
    op,                \* the typed call the local caller is in
    cmd,               \* its target mnemonic
    args,              \* the fields that follow the mnemonic in the command
    input,             \* the argument the typed wrapper was called with
    phase,             \* which round trip of the typed call: prg, target, epg
    already_program,   \* local variable of _execute_program_mode_command
    trips,             \* mnemonics the current typed call has written
    outcome,           \* how the last typed call ended
    calls,             \* typed calls made so far
    explicit,          \* the caller's explicit enter_program_mode is in force
    chunks,            \* chunks the relay clients have sent
    x_command,         \* classifier input: the command
    x_line,            \* classifier input: the raw response line
    x_out,             \* classifier output
    x_act,             \* outcome of _execute_action on the same input
    scanner,           \* the class of the scanner object: BC125AT or BC75XLT
    memory,            \* the device's channel memory: the CIN fields per index
    chan_op,           \* the channel operation called last
    target,            \* its argument: a Channel, or the index to clear
    stored,            \* the Channel its get_channel_info returned
    chan_io,           \* the channel commands it issued, in order
    chan_eq,           \* the value of a == b for a = stored, b = target
    chan_calls,        \* channel operations called so far
    pure_fn,           \* the function of the data model applied last
    pure_arg,          \* its argument
    pure_out,          \* what it returned or raised
    transport,         \* which of self._serial / self._socket is set
    device,            \* the scanner: its mode and the frames it has not answered
    thread             \* the threads of a process that shares one engine

engine_vars == <<cmd_lock, in_program_mode, devbuf, rx, pc, req, wpos, res,
                 op, cmd, args, input, phase, already_program, trips, outcome, calls,
                 explicit, chunks>>
exec_vars == <<x_command, x_line, x_out, x_act>>
chan_vars == <<scanner, memory, chan_op, target, stored, chan_io, chan_eq,
               chan_calls>>
pure_vars == <<pure_fn, pure_arg, pure_out>>
sess_vars == <<transport, device, thread>>
local_vars == <<op, cmd, args, input, phase, already_program, trips, outcome, calls, explicit>>
vars == <<cmd_lock, in_program_mode, devbuf, rx, pc, req, wpos, res,
          op, cmd, args, input, phase, already_program, trips, outcome, calls,
          explicit, chunks, x_command, x_line, x_out, x_act,
          scanner, memory, chan_op, target, stored, chan_io, chan_eq,
          chan_calls, pure_fn, pure_arg, pure_out, transport, device, thread>>

\* BearcatBase.__init__, lines 167-169, and idle threads.
EngineInit ==
    /\ cmd_lock = NoHolder
    /\ in_program_mode = FALSE
    /\ devbuf = <<>>
    /\ rx = <<>>
    /\ pc = [c \in Callers |-> IF c = Main THEN "idle" ELSE "recv"]
    /\ req = [c \in Callers |-> <<>>]
    /\ wpos = [c \in Callers |-> 0]
    /\ res = [c \in Callers |-> NoRes]
    /\ op = "none"
    /\ cmd = "none"
    /\ args = <<>>
    /\ input = <<>>
    /\ phase = "none"
    /\ already_program = FALSE
    /\ trips = <<>>
    /\ outcome = Pending
    /\ calls = 0
    /\ explicit = FALSE
    /\ chunks = 0

ExecIdle ==
    /\ x_command = <<>>
    /\ x_line = <<>>
    /\ x_out = Pending
    /\ x_act = Pending

\* No channel operation has been called.
ChanIdle ==
    /\ scanner = "BC125AT"
    /\ memory = <<>>
    /\ chan_op = "none"
    /\ target = <<>>
    /\ stored = <<>>
    /\ chan_io = <<>>
    /\ chan_eq = "pending"
    /\ chan_calls = 0

\* No function of the data model has been applied.
PureIdle ==
    /\ pure_fn = "none"
    /\ pure_arg = <<>>
    /\ pure_out = Pending

\* Threads of one process that share the engine: two threads making typed
\* calls, and one _client_listener thread of the relay.
LocalThreads == {"t1", "t2"}
RelayThread == "r1"
Threads == LocalThreads \cup {RelayThread}

\* No reply read: readline() returned b''.
NoReply == [to |-> <<>>, line |-> <<>>]

\* A thread that has called nothing yet; the relay thread is in s.recv.
ThreadStart(t) ==
    [pc |-> IF t = RelayThread THEN "recv" ELSE "idle",
     op |-> "none", cmd |-> "none", phase |-> "none",
     already_program |-> FALSE, explicit |-> FALSE, call |-> 0,
     res |-> NoReply, outcome |-> Pending]

\* The scanner after power-on: scanning, nothing received.
DeviceStart == [program |-> FALSE, pending |-> <<>>]

\* BearcatBase.__init__ with a serial port name, no thread started.
SessIdle ==
    /\ transport = "serial"
    /\ device = DeviceStart
    /\ thread = [t \in Threads |-> ThreadStart(t)]

Init == EngineInit /\ ExecIdle /\ ChanIdle /\ PureIdle /\ SessIdle

\* ------------------------------------------------- the execution lock
\* Mutant: the lock is never contended (no `with self._cmd_lock`).
_cmd_lock_acquire_unlocked(lock) == TRUE

\* `with self._cmd_lock:` can be entered when nobody holds the lock.
_cmd_lock_acquire(lock) == lock = NoHolder

\* Mutant: acquire()/release() without try/finally: an exception inside
\* the critical section leaves the lock held.
_cmd_lock_exit_leaky(holder, raised) == IF raised THEN holder ELSE NoHolder

\* Mutant: the lock is kept after a round trip that returned, for the
\* round trips that follow.
_cmd_lock_exit_held(holder, raised) == IF raised THEN NoHolder ELSE holder

\* Leaving the `with` block releases the lock, by return or by exception.
_cmd_lock_exit(holder, raised) == NoHolder

\* ------------------------------------------- _execute_command_raw, 210-218
\* A caller about to run _execute_command_raw(command).
Enter(c, command) ==
    /\ pc' = [pc EXCEPT ![c] = "acquire"]
    /\ req' = [req EXCEPT ![c] = command]
    /\ wpos' = [wpos EXCEPT ![c] = 0]

\* with self._cmd_lock: (line 212)
Acquire(c) ==
    /\ pc[c] = "acquire"
    /\ _cmd_lock_acquire(cmd_lock)
    /\ cmd_lock' = c
    /\ pc' = [pc EXCEPT ![c] = "write"]
    /\ UNCHANGED <<in_program_mode, devbuf, rx, req, wpos, res, chunks>>
    /\ UNCHANGED local_vars
    /\ UNCHANGED exec_vars
    /\ UNCHANGED sess_vars
    /\ UNCHANGED pure_vars
    /\ UNCHANGED chan_vars

\* The bytes of a frame the device has received, and who wrote them.
FrameBody(buf) == [i \in 1..Len(buf) |-> buf[i].b]
FrameBy(buf, c) ==
    IF \A i \in 1..Len(buf) : buf[i].by = c THEN c ELSE "mixed"

\* self._serial.write(command) (line 214), one byte at a time.  On a
\* carriage return the device has a whole frame: it answers it with one
\* line, or stays silent until the reader times out.
WriteByte(c) ==
    /\ pc[c] = "write"
    /\ wpos[c] < Len(req[c])
    /\ LET b == req[c][wpos[c] + 1]
           last == wpos[c] + 1 = Len(req[c])
       IN /\ wpos' = [wpos EXCEPT ![c] = wpos[c] + 1]
          /\ pc' = [pc EXCEPT ![c] = IF last THEN "read" ELSE "write"]
          /\ trips' = IF c = Main /\ last THEN Append(trips, req[c][1])
                      ELSE trips
          /\ IF b = CR
             THEN /\ devbuf' = <<>>
                  /\ \/ \E line \in DeviceLines(FrameBody(devbuf)) :
                           rx' = Append(rx, [by |-> FrameBy(devbuf, c),
                                             frame |-> FrameBody(devbuf),
                                             line |-> line])
                     \/ rx' = rx
             ELSE /\ devbuf' = Append(devbuf, [by |-> c, b |-> b])
                  /\ rx' = rx
    /\ UNCHANGED <<cmd_lock, in_program_mode, req, res, chunks>>
    /\ UNCHANGED <<op, cmd, args, input, phase, already_program, outcome, calls, explicit>>
    /\ UNCHANGED exec_vars
    /\ UNCHANGED sess_vars
    /\ UNCHANGED pure_vars
    /\ UNCHANGED chan_vars

\* An exception leaves _execute_command_raw: it ends the local caller's
\* typed call, and it ends a relay thread (nothing in _client_listener
\* catches it, so s.close() is not reached).
Propagate(c) ==
    /\ pc' = [pc EXCEPT ![c] = IF c = Main THEN "idle" ELSE "dead"]
    /\ outcome' = IF c = Main THEN Raise("SerialException") ELSE outcome
    /\ req' = [req EXCEPT ![c] = <<>>]
    /\ wpos' = [wpos EXCEPT ![c] = 0]

\* self._serial.write(command) raises.
WriteRaise(c) ==
    /\ pc[c] = "write"
    /\ wpos[c] = 0
    /\ cmd_lock' = _cmd_lock_exit(c, TRUE)
    /\ Propagate(c)
    /\ UNCHANGED <<in_program_mode, devbuf, rx, res, chunks>>
    /\ UNCHANGED <<op, cmd, args, input, phase, already_program, trips, calls, explicit>>
    /\ UNCHANGED exec_vars
    /\ UNCHANGED sess_vars
    /\ UNCHANGED pure_vars
    /\ UNCHANGED chan_vars

\* return self._serial.readline() (line 215): one line of the input
\* buffer, or b'' when the timeout expires with nothing to read.
Read(c) ==
    /\ pc[c] = "read"
    /\ IF rx # <<>>
       THEN /\ res' = [res EXCEPT ![c] = Head(rx)]
            /\ rx' = Tail(rx)
       ELSE /\ res' = [res EXCEPT ![c] = NoRes]
            /\ rx' = rx
    /\ cmd_lock' = _cmd_lock_exit(c, FALSE)
    /\ pc' = [pc EXCEPT ![c] = "returned"]
    /\ UNCHANGED <<in_program_mode, devbuf, req, wpos, chunks>>
    /\ UNCHANGED local_vars
    /\ UNCHANGED exec_vars
    /\ UNCHANGED sess_vars
    /\ UNCHANGED pure_vars
    /\ UNCHANGED chan_vars

\* self._serial.readline() raises: the failed read delivers nothing and
\* what the port had buffered is lost with it.
ReadRaise(c) ==
    /\ pc[c] = "read"
    /\ cmd_lock' = _cmd_lock_exit(c, TRUE)
    /\ Propagate(c)
    /\ rx' = <<>>
    /\ UNCHANGED <<in_program_mode, devbuf, res, chunks>>
    /\ UNCHANGED <<op, cmd, args, input, phase, already_program, trips, calls, explicit>>
    /\ UNCHANGED exec_vars
    /\ UNCHANGED sess_vars
    /\ UNCHANGED pure_vars
    /\ UNCHANGED chan_vars

\* --------------------------------------------- _client_listener, 184-193
ClientChunks == { <<"STS", CR>> }

\* recv_bytes = s.recv(4096), not empty: forwarded as it is.
ClientRecv(c) ==
    /\ pc[c] = "recv"
    /\ chunks < MaxChunks
    /\ \E chunk \in ClientChunks : Enter(c, chunk)
    /\ chunks' = chunks + 1
    /\ UNCHANGED <<cmd_lock, in_program_mode, devbuf, rx, res>>
    /\ UNCHANGED local_vars
    /\ UNCHANGED exec_vars
    /\ UNCHANGED sess_vars
    /\ UNCHANGED pure_vars
    /\ UNCHANGED chan_vars

\* recv returns b'' (the client closed): break, s.close().
ClientEOF(c) ==
    /\ pc[c] = "recv"
    /\ pc' = [pc EXCEPT ![c] = "closed"]
    /\ UNCHANGED <<cmd_lock, in_program_mode, devbuf, rx, req, wpos, res, chunks>>
    /\ UNCHANGED local_vars
    /\ UNCHANGED exec_vars
    /\ UNCHANGED sess_vars
    /\ UNCHANGED pure_vars
    /\ UNCHANGED chan_vars

\* Mutant: the thread leaves the loop after the first chunk it answered.
_client_listener_after_sendall_break == "closed"

\* `while True:` of _client_listener, line 186: after sendall the loop
\* goes back to recv.
_client_listener_after_sendall == "recv"

\* s.sendall(<the raw response>), then the next recv.
ClientSend(c) ==
    /\ pc[c] = "returned"
    /\ pc' = [pc EXCEPT ![c] = _client_listener_after_sendall]
    /\ res' = [res EXCEPT ![c] = NoRes]
    /\ req' = [req EXCEPT ![c] = <<>>]
    /\ wpos' = [wpos EXCEPT ![c] = 0]
    /\ UNCHANGED <<cmd_lock, in_program_mode, devbuf, rx, chunks>>
    /\ UNCHANGED local_vars
    /\ UNCHANGED exec_vars
    /\ UNCHANGED sess_vars
    /\ UNCHANGED pure_vars
    /\ UNCHANGED chan_vars

\* ------------------------------------------------ the local typed calls
LocalCmds == {"BLT"}

StartCall(o, m, a, in, ph) ==
    /\ pc[Main] = "idle"
    /\ calls < MaxCalls
    /\ calls' = calls + 1
    /\ op' = o
    /\ cmd' = m
    /\ args' = a
    /\ input' = in
    /\ phase' = ph
    /\ trips' = <<>>
    /\ outcome' = Pending
    /\ Enter(Main, IF ph = "prg" THEN cmd_bytes_of(<<"PRG">>)
                   ELSE IF ph = "epg" THEN cmd_bytes_of(<<"EPG">>)
                   ELSE cmd_bytes_with(m, a))
    /\ UNCHANGED <<cmd_lock, in_program_mode, devbuf, rx, res, chunks>>
    /\ UNCHANGED exec_vars
    /\ UNCHANGED sess_vars
    /\ UNCHANGED pure_vars
    /\ UNCHANGED chan_vars

\* _execute_command(m) called directly (as find_codes.py does).
CallExecute ==
    \E m \in LocalCmds :
        /\ StartCall("execute", m, <<>>, <<>>, "target")
        /\ UNCHANGED <<already_program, explicit>>

\* enter_program_mode() called by the caller (line 332).
CallEnter ==
    /\ StartCall("enter", "PRG", <<>>, <<>>, "prg")
    /\ UNCHANGED <<already_program, explicit>>

\* exit_program_mode() called by the caller (line 337).
CallExit ==
    /\ StartCall("exit", "EPG", <<>>, <<>>, "epg")
    /\ explicit' = FALSE
    /\ UNCHANGED already_program

\* Mutant: the helper brackets whatever the session state is.
already_program_of_never(flag) == FALSE

\* already_program = self._in_program_mode (line 285)
already_program_of(flag) == flag

\* _execute_program_mode_command(m), lines 283-288: PRG first unless the
\* session is already in program mode.
CallProgramMode ==
    \E m \in LocalCmds :
        /\ already_program' = already_program_of(in_program_mode)
        /\ StartCall("pm", m, <<>>, <<>>,
                     IF already_program' THEN "target" ELSE "prg")
        /\ UNCHANGED explicit

\* Mutant: an error of _execute_command is caught and the action passes.
_execute_action_swallow(c, res_bytes) ==
    LET response == _execute_command(<<c>>, res_bytes)
    IN IF response.kind # "return" THEN Return(<<>>)
       ELSE IF _check_ok(response.value) THEN Return(<<>>)
       ELSE Raise("UnexpectedResultError")

\* _execute_action(cmd), line 266: _check_ok(_execute_command(cmd)).
_execute_action(c, res_bytes) ==
    LET response == _execute_command(<<c>>, res_bytes)
    IN IF response.kind # "return" THEN response
       ELSE IF _check_ok(response.value) THEN Return(<<>>)
       ELSE Raise("UnexpectedResultError")

\* Mutant: the flag is set before the action is checked.
enter_program_mode_unchecked(action, flag) == TRUE

\* enter_program_mode, lines 334-335: the assignment is reached only when
\* _execute_action('PRG') did not raise.
enter_program_mode(action, flag) ==
    IF action.kind = "return" THEN TRUE ELSE flag

\* exit_program_mode, lines 339-340.
exit_program_mode(action, flag) ==
    IF action.kind = "return" THEN FALSE ELSE flag

\* ------------------------------------------------------ typed wrappers
\* Class constants of BC125AT.
TOTAL_CHANNELS == 500
FREQUENCY_SCALE == 100
MIN_FREQUENCY_HZ == 25000000
MAX_FREQUENCY_HZ == 512000000
AVAILABLE_KEYS == {"<", "^", ">", "H", "1", "2", "3", "S", "4", "5", "6",
                   "R", "7", "8", "9", "L", "E", "0", ".", "P", "F"}

\* Mutant: only the upper end of the range is asserted.
set_volume_assert_upper(level) == level <= 15

\* set_volume, line 492 (set_squelch 502 and set_contrast 526 alike).
set_volume_assert(level) == 0 <= level /\ level <= 15

\* delete_channel, line 516.
delete_channel_assert(channel) == 1 <= channel /\ channel <= TOTAL_CHANNELS

\* _set_program_mode_group, line 324.
_set_program_mode_group_assert(states) == Len(states) = 10

\* state_str = ''.join([str(int(b)) for b in states]), line 325.
state_str_of(states) ==
    [i \in 1..Len(states) |-> IF states[i] THEN "1" ELSE "0"]

\* _key_action, lines 541-543: key is key.upper() here.
_key_action_assert(key) == Len(key) = 1 /\ key[1] \in AVAILABLE_KEYS

\* set_charge_time, line 427 of bc125at.py.
set_charge_time_assert(time) == 1 <= time /\ time <= 14

\* unlock_global_lo, line 401.
unlock_global_lo_assert(frequency) ==
    MIN_FREQUENCY_HZ <= frequency /\ frequency <= MAX_FREQUENCY_HZ

\* The wrappers that end in _set_value or in _check_ok(_execute_command),
\* and those that end in _set_program_mode_value.
DirectSetters == {"set_volume", "_key_action", "unlock_global_lo",
                  "set_charge_time"}
BracketedSetters == {"delete_channel", "_set_program_mode_group"}
Bracketed == {"pm"} \cup BracketedSetters

\* _set_value, line 281: _check_ok of what _execute_command returned.
_set_value(response) ==
    IF response.kind # "return" THEN response
    ELSE IF _check_ok(response.value) THEN Return(<<>>)
    ELSE Raise("UnexpectedResultError")

\* _set_program_mode_value, line 320: _check_ok of what
\* _execute_program_mode_command returned.
_set_program_mode_value(response) ==
    IF response.kind # "return" THEN response
    ELSE IF _check_ok(response.value) THEN Return(<<>>)
    ELSE Raise("UnexpectedResultError")

\* Mutant: the flag is cleared in a finally clause, whatever TST raised.
enter_test_mode_finally(response, flag) == FALSE

\* enter_test_mode, lines 392-396 of bc125at.py: UnexpectedResultError is
\* swallowed and the flag is cleared; another error leaves the method
\* before the assignment.
enter_test_mode(response, flag) ==
    IF response.kind \in {"return", "UnexpectedResultError"} THEN FALSE
    ELSE flag

\* What a typed call gives its caller once its target round trip (and
\* EPG, when bracketed) is over.
typed_result(o, response) ==
    IF o \in DirectSetters THEN _set_value(response)
    ELSE IF o \in BracketedSetters THEN _set_program_mode_value(response)
    ELSE IF o = "enter_test_mode" /\ response.kind = "UnexpectedResultError"
    THEN Return(<<>>)
    ELSE IF o = "enter_test_mode" /\ response.kind = "return" THEN Return(<<>>)
    ELSE response

\* The typed call ends: it returns out, or out is raised to the caller.
Finish(out) ==
    /\ pc' = [pc EXCEPT ![Main] = "idle"]
    /\ outcome' = out
    /\ res' = [res EXCEPT ![Main] = NoRes]
    /\ req' = [req EXCEPT ![Main] = <<>>]
    /\ wpos' = [wpos EXCEPT ![Main] = 0]
    /\ UNCHANGED phase

\* The typed call goes on to its next round trip.
Continue(ph, m, a) ==
    /\ phase' = ph
    /\ Enter(Main, cmd_bytes_with(m, a))
    /\ res' = [res EXCEPT ![Main] = NoRes]

\* The PRG round trip of enter_program_mode has returned (called by the
\* caller, or by _execute_program_mode_command at line 287).
PrgReturn ==
    /\ pc[Main] = "returned"
    /\ phase = "prg"
    /\ LET action == _execute_action("PRG", res[Main].line)
       IN /\ in_program_mode' = enter_program_mode(action, in_program_mode)
          /\ IF action.kind # "return"
             THEN Finish(action) /\ UNCHANGED explicit
             ELSE IF op = "enter"
             THEN Finish(action) /\ explicit' = TRUE
             ELSE Continue("target", cmd, args) /\ UNCHANGED <<outcome, explicit>>
    /\ UNCHANGED <<cmd_lock, devbuf, rx, chunks>>
    /\ UNCHANGED <<op, cmd, args, input, already_program, trips, calls>>
    /\ UNCHANGED exec_vars
    /\ UNCHANGED sess_vars
    /\ UNCHANGED pure_vars
    /\ UNCHANGED chan_vars

\* response = self._execute_command(*command) has returned or raised
\* (line 289, or a direct call); lines 291-294 follow a return.
TargetReturn ==
    /\ pc[Main] = "returned"
    /\ phase = "target"
    /\ LET response == _execute_command(<<cmd>>, res[Main].line)
       IN /\ in_program_mode' =
                IF op = "enter_test_mode"
                THEN enter_test_mode(response, in_program_mode)
                ELSE in_program_mode
          /\ IF response.kind = "return" /\ op \in Bracketed /\ ~already_program
             THEN Continue("epg", "EPG", <<>>) /\ outcome' = response
             ELSE Finish(typed_result(op, response))
    /\ UNCHANGED <<cmd_lock, devbuf, rx, chunks>>
    /\ UNCHANGED <<op, cmd, args, input, already_program, trips, calls, explicit>>
    /\ UNCHANGED exec_vars
    /\ UNCHANGED sess_vars
    /\ UNCHANGED pure_vars
    /\ UNCHANGED chan_vars

\* The EPG round trip of exit_program_mode has returned (called by the
\* caller, or by _execute_program_mode_command at line 292).
EpgReturn ==
    /\ pc[Main] = "returned"
    /\ phase = "epg"
    /\ LET action == _execute_action("EPG", res[Main].line)
       IN /\ in_program_mode' = exit_program_mode(action, in_program_mode)
          /\ Finish(IF action.kind = "return" /\ op \in Bracketed
                    THEN typed_result(op, outcome) ELSE action)
    /\ UNCHANGED <<cmd_lock, devbuf, rx, chunks>>
    /\ UNCHANGED <<op, cmd, args, input, already_program, trips, calls, explicit>>
    /\ UNCHANGED exec_vars
    /\ UNCHANGED sess_vars
    /\ UNCHANGED pure_vars
    /\ UNCHANGED chan_vars

\* ------------------------------------------- calls of the typed wrappers
\* An assert of a typed wrapper fails: AssertionError leaves the wrapper
\* at that line.
AssertFails(o, in) ==
    /\ pc[Main] = "idle"
    /\ calls < MaxCalls
    /\ calls' = calls + 1
    /\ op' = o
    /\ cmd' = "none"
    /\ args' = <<>>
    /\ input' = in
    /\ phase' = "none"
    /\ trips' = <<>>
    /\ outcome' = Raise("AssertionError")
    /\ UNCHANGED <<cmd_lock, in_program_mode, devbuf, rx, pc, req, wpos, res,
                   chunks, already_program, explicit>>
    /\ UNCHANGED exec_vars
    /\ UNCHANGED sess_vars
    /\ UNCHANGED pure_vars
    /\ UNCHANGED chan_vars

\* A wrapper that passed its asserts goes on to _set_value.
StartSetter(o, m, a, in) ==
    /\ StartCall(o, m, a, in, "target")
    /\ UNCHANGED <<already_program, explicit>>

\* A wrapper that passed its asserts goes on to _set_program_mode_value.
StartBracketed(o, m, a, in) ==
    /\ already_program' = already_program_of(in_program_mode)
    /\ StartCall(o, m, a, in, IF already_program' THEN "target" ELSE "prg")
    /\ UNCHANGED explicit

Levels == {-1, 0, 15, 16}
ChannelNumbers == {0, 1, TOTAL_CHANNELS, TOTAL_CHANNELS + 1}
GroupStates == {[i \in 1..k |-> b] : k \in {9, 10, 11}, b \in BOOLEAN}
Keys == {<<>>, <<"h">>, <<"1">>, <<"x">>, <<"1", "2">>}
Frequencies == {MIN_FREQUENCY_HZ - 1, MIN_FREQUENCY_HZ,
                MAX_FREQUENCY_HZ, MAX_FREQUENCY_HZ + 1}
TestModes == {"1", "4"}
ChargeTimes == {0, 1, 14, 15}

\* set_volume(level), lines 485-493.
CallSetVolume ==
    \E level \in Levels :
        IF set_volume_assert(level)
        THEN StartSetter("set_volume", "VOL", <<Str(ToString(level))>>, level)
        ELSE AssertFails("set_volume", level)

\* delete_channel(channel), lines 509-517.
CallDeleteChannel ==
    \E channel \in ChannelNumbers :
        IF delete_channel_assert(channel)
        THEN StartBracketed("delete_channel", "DCH",
                            <<Str(ToString(channel))>>, channel)
        ELSE AssertFails("delete_channel", channel)

\* _set_program_mode_group('SCG', states), as set_scan_channel_group does.
CallSetGroup ==
    \E states \in GroupStates :
        IF _set_program_mode_group_assert(states)
        THEN StartBracketed("_set_program_mode_group", "SCG",
                            <<state_str_of(states)>>, states)
        ELSE AssertFails("_set_program_mode_group", states)

\* _key_action(key, KeyAction.PRESS), as press_key does.
CallKeyAction ==
    \E k \in Keys :
        LET key == [i \in 1..Len(k) |-> Upper(k[i])]
        IN IF _key_action_assert(key)
           THEN StartSetter("_key_action", "KEY", <<key, Str("P")>>, k)
           ELSE AssertFails("_key_action", k)

\* unlock_global_lo(frequency), lines 394-403.
CallUnlockGlobalLo ==
    \E frequency \in Frequencies :
        IF unlock_global_lo_assert(frequency)
        THEN StartSetter("unlock_global_lo", "ULF",
                         <<Str(ToString(frequency \div FREQUENCY_SCALE))>>,
                         frequency)
        ELSE AssertFails("unlock_global_lo", frequency)

\* set_charge_time(time), lines 420-428 of bc125at.py: _set_value('BSV', time).
CallSetChargeTime ==
    \E time \in ChargeTimes :
        IF set_charge_time_assert(time)
        THEN StartSetter("set_charge_time", "BSV", <<Str(ToString(time))>>, time)
        ELSE AssertFails("set_charge_time", time)

\* enter_test_mode(mode), lines 389-396 of bc125at.py.
CallEnterTestMode ==
    \E mode \in TestModes :
        IF in_program_mode
        THEN /\ StartCall("enter_test_mode", "TST",
                          <<Str(mode), Str("UNIDEN_TEST_MODE")>>, mode, "target")
             /\ UNCHANGED <<already_program, explicit>>
        ELSE AssertFails("enter_test_mode", mode)

\* ------------------------------------------------------ specifications
Next ==
    \/ CallExecute
    \/ CallEnter
    \/ CallExit
    \/ CallProgramMode
    \/ PrgReturn
    \/ TargetReturn
    \/ EpgReturn
    \/ \E c \in Callers : Acquire(c)
    \/ \E c \in Callers : WriteByte(c)
    \/ \E c \in Callers : WriteRaise(c)
    \/ \E c \in Callers : Read(c)
    \/ \E c \in Callers : ReadRaise(c)
    \/ \E c \in Clients : ClientRecv(c)
    \/ \E c \in Clients : ClientEOF(c)
    \/ \E c \in Clients : ClientSend(c)

Spec == Init /\ [][Next]_vars

\* The local caller alone, making typed calls of every kind.
NextTyped ==
    \/ CallEnter
    \/ CallExit
    \/ CallSetVolume
    \/ CallDeleteChannel
    \/ CallSetGroup
    \/ CallKeyAction
    \/ CallSetChargeTime
    \/ CallUnlockGlobalLo
    \/ CallEnterTestMode
    \/ PrgReturn
    \/ TargetReturn
    \/ EpgReturn
    \/ Acquire(Main)
    \/ WriteByte(Main)
    \/ WriteRaise(Main)
    \/ Read(Main)
    \/ ReadRaise(Main)

SpecTyped == Init /\ [][NextTyped]_vars

\* The classifier alone, on every short response line.
ExecTokens == {"ERR", "VOL", "OK", "NG", "5", COMMA, CR}
ExecMnemonics == {"VOL", "ERR"}
ExecLines == UNION {[1..k -> ExecTokens] : k \in 0..MaxLine}

InitExec ==
    /\ EngineInit
    /\ SessIdle
    /\ x_command \in {<<m>> : m \in ExecMnemonics}
    /\ x_line \in ExecLines
    /\ x_out = Pending
    /\ x_act = Pending
    /\ ChanIdle
    /\ PureIdle

\* _execute_command(*x_command) with the device answering x_line.
Execute ==
    /\ x_out = Pending
    /\ x_out' = _execute_command(x_command, x_line)
    /\ UNCHANGED <<x_command, x_line, x_act>>
    /\ UNCHANGED engine_vars
    /\ UNCHANGED sess_vars
    /\ UNCHANGED chan_vars
    /\ UNCHANGED pure_vars

\* _execute_action(x_command) with the device answering x_line.
ExecuteAction ==
    /\ x_act = Pending
    /\ x_act' = _execute_action(x_command[1], x_line)
    /\ UNCHANGED <<x_command, x_line, x_out>>
    /\ UNCHANGED engine_vars
    /\ UNCHANGED sess_vars
    /\ UNCHANGED chan_vars
    /\ UNCHANGED pure_vars

NextExec ==
    \/ Execute
    \/ ExecuteAction

SpecExec == InitExec /\ [][NextExec]_vars

\* -------------------------------------------------------------- channels
\* The channel operations of BC125AT and BC75XLT, against a device that is
\* in program mode, answers every CIN / DCH round trip, stores the fields a
\* CIN write sends under the index they name and returns them on a CIN
\* read.  A field is a string: a sequence of tokens, as above.

\* Channel.__init__ (bc125at.py 117-135).  BC75XLT builds the same eight
\* values (bc75xlt.py 141-142, 272).
Channel(index, name, frequency, modulation, tone_code, delay, lockout, priority) ==
    [index |-> index, name |-> name, frequency |-> frequency,
     modulation |-> modulation, tone_code |-> tone_code, delay |-> delay,
     lockout |-> lockout, priority |-> priority]

\* bearcat.Channel, the class bc75xlt.py imports (line 5) and constructs
\* with eight positional values: the Channel of the specification, with
\* index, name, frequency, modulation, tone code, delay, lockout, priority.
BearcatChannel(index, name, frequency, modulation, tone_code, delay, lockout, priority) ==
    Channel(index, name, frequency, modulation, tone_code, delay, lockout,
            priority)

ChanIndexes == {1, 2}
ChanNames == {<<>>, <<"Tower">>}
ChanFrequencies == {0, MIN_FREQUENCY_HZ, MIN_FREQUENCY_HZ + 50}

\* str(n) for an int, and int(s) for the decimal numerals that occur.
str(n) == <<ToString(n)>>
WireNumbers ==
    {0, 1, 2, 127, TOTAL_CHANNELS, TOTAL_CHANNELS + 1}
    \cup {f \div FREQUENCY_SCALE : f \in ChanFrequencies}
    \cup {MIN_FREQUENCY_HZ \div FREQUENCY_SCALE - 1,
          MAX_FREQUENCY_HZ \div FREQUENCY_SCALE,
          MAX_FREQUENCY_HZ \div FREQUENCY_SCALE + 1}
int(s) == CHOOSE n \in WireNumbers : str(n) = s

\* str(int(b)) for a bool, and bool(int(s)).
str_int_bool(b) == IF b THEN <<"1">> ELSE <<"0">>
bool_int(s) == int(s) # 0

\* Channel.from_cin_response, bc125at.py 137-143; r is the response after
\* the echo.  Modulation(...) and DelayTime(...) are named by their value.
from_cin_response(r) ==
    Channel(int(r[1]), r[2], int(r[3]) * FREQUENCY_SCALE, r[4][1],
            int(r[5]), r[6][1], bool_int(r[7]), bool_int(r[8]))

\* Mutant: lockout and priority are sent in each other's place.
to_response_swapped(self) ==
    << str(self.index), self.name, str(self.frequency \div FREQUENCY_SCALE),
       Str(self.modulation), str(self.tone_code), Str(self.delay),
       str_int_bool(self.priority), str_int_bool(self.lockout) >>

\* Channel.to_response, bc125at.py 145-149; int(x / 100) truncates.
to_response(self) ==
    << str(self.index), self.name, str(self.frequency \div FREQUENCY_SCALE),
       Str(self.modulation), str(self.tone_code), Str(self.delay),
       str_int_bool(self.lockout), str_int_bool(self.priority) >>

\* Mutant: the index is compared as well.
__eq___with_index(self, other) ==
    /\ self.index = other.index
    /\ self.name = other.name /\ self.frequency = other.frequency
    /\ self.modulation = other.modulation /\ self.tone_code = other.tone_code
    /\ self.delay = other.delay /\ self.lockout = other.lockout
    /\ self.priority = other.priority

\* Channel.__eq__, bc125at.py 156-159.
__eq__(self, other) ==
    /\ self.name = other.name /\ self.frequency = other.frequency
    /\ self.modulation = other.modulation /\ self.tone_code = other.tone_code
    /\ self.delay = other.delay /\ self.lockout = other.lockout
    /\ self.priority = other.priority

\* Mutant: only the frequency is compared.
compare_channels_frequency(a, b) == a.frequency = b.frequency

\* BC75XLT.compare_channels, bc75xlt.py 56-58.
compare_channels(a, b) ==
    /\ a.frequency = b.frequency /\ a.delay = b.delay
    /\ a.lockout = b.lockout /\ a.priority = b.priority

\* BC75XLT.determine_modulation, bc75xlt.py 60-65.
determine_modulation(frequency_hz) ==
    IF frequency_hz < 28000000 \/ (108 <= frequency_hz /\ frequency_hz < 137)
    THEN "AM" ELSE "NFM"

\* get_channel_info: the Channel made of the fields the device returns
\* (bc125at.py 293-296; bc75xlt.py 137-142, which skips modulation and
\* tone code).
get_channel_info(sc, mem, channel) ==
    LET response == mem[channel] IN
    IF sc = "BC125AT" THEN from_cin_response(response)
    ELSE LET frequency_hz == int(response[3]) * FREQUENCY_SCALE
         IN BearcatChannel(int(response[1]), response[2], frequency_hz,
                           determine_modulation(frequency_hz), 0,
                           response[6][1], bool_int(response[7]),
                           bool_int(response[8]))

\* The fields set_channel_info sends after CIN (bc125at.py 465;
\* bc75xlt.py 210-213, which leaves name, modulation and tone code empty).
set_channel_info(sc, channel) ==
    IF sc = "BC125AT" THEN to_response(channel)
    ELSE << str(channel.index), <<>>,
            str(channel.frequency \div FREQUENCY_SCALE), <<>>, <<>>,
            Str(channel.delay), str_int_bool(channel.lockout),
            str_int_bool(channel.priority) >>

\* update_channel's test (bc125at.py 551: != is not __eq__;
\* bc75xlt.py 264).
needs_write(sc, current, channel) ==
    IF sc = "BC125AT" THEN ~__eq__(current, channel)
    ELSE ~compare_channels(current, channel)

\* Mutant: the channel is deleted only when it has both.
needs_clear_and(sc, channel) ==
    IF sc = "BC125AT" THEN channel.name # <<>> /\ channel.frequency # 0
    ELSE channel.frequency # 0

\* clear_channel's test (bc125at.py 557; bc75xlt.py 270).
needs_clear(sc, channel) ==
    IF sc = "BC125AT" THEN channel.name # <<>> \/ channel.frequency # 0
    ELSE channel.frequency # 0

\* What the device holds for a deleted channel of the BC125AT.
Deleted(i) ==
    << str(i), <<>>, str(0), Str("AUTO"), str(0), Str("2"), str(1), str(0) >>

\* A command of a channel operation, as the device got it.
ChanCmd(kind, i) == [io |-> kind, index |-> i]

\* The Channels given to update_channel.
UpdateTargets ==
    { Channel(i, n, f, m, 0, "1", l, FALSE) :
        i \in ChanIndexes, n \in ChanNames,
        f \in ChanFrequencies \ {0}, m \in {"AM", "NFM"}, l \in BOOLEAN }

\* What the channel memory may hold when the program connects: channels
\* written by this program before, or deleted ones.
InitRecords(sc, i) ==
    IF sc = "BC125AT"
    THEN { Deleted(i),
           to_response(Channel(i, <<"Tower">>, 0, "AUTO", 0, "2", TRUE, FALSE)),
           to_response(Channel(i, <<>>, MIN_FREQUENCY_HZ, "AM", 0, "1", FALSE, FALSE)) }
    ELSE { set_channel_info(sc, Channel(i, <<>>, 0, "AM", 0, "1", TRUE, FALSE)),
           set_channel_info(sc, Channel(i, <<>>, MIN_FREQUENCY_HZ, "AM", 0, "1", FALSE, FALSE)) }

InitChan ==
    /\ EngineInit
    /\ SessIdle
    /\ ExecIdle
    /\ scanner \in {"BC125AT", "BC75XLT"}
    /\ memory \in [ChanIndexes -> UNION {InitRecords(scanner, i) : i \in ChanIndexes}]
    /\ \A i \in ChanIndexes : memory[i] \in InitRecords(scanner, i)
    /\ chan_op = "none"
    /\ target = <<>>
    /\ stored = <<>>
    /\ chan_io = <<>>
    /\ chan_eq = "pending"
    /\ chan_calls = 0
    /\ PureIdle

\* update_channel(channel), bc125at.py 549-552 and bc75xlt.py 262-265.
UpdateChannel ==
    /\ chan_calls < MaxChanCalls
    /\ chan_calls' = chan_calls + 1
    /\ \E channel \in UpdateTargets :
          LET current == get_channel_info(scanner, memory, channel.index)
              write == needs_write(scanner, current, channel)
              fields == set_channel_info(scanner, channel)
          IN /\ chan_op' = "update_channel"
             /\ target' = channel
             /\ stored' = current
             /\ chan_io' = <<ChanCmd("read", channel.index)>> \o
                           IF write THEN <<ChanCmd("write", int(fields[1]))>>
                           ELSE <<>>
             /\ memory' = IF write
                          THEN [memory EXCEPT ![int(fields[1])] = fields]
                          ELSE memory
    /\ UNCHANGED <<scanner, chan_eq>>
    /\ UNCHANGED engine_vars
    /\ UNCHANGED exec_vars
    /\ UNCHANGED sess_vars
    /\ UNCHANGED pure_vars

\* clear_channel(index), bc125at.py 554-558 (delete_channel sends DCH) and
\* bc75xlt.py 267-272 (a blank record is written).
ClearChannel ==
    /\ chan_calls < MaxChanCalls
    /\ chan_calls' = chan_calls + 1
    /\ \E index \in ChanIndexes :
          LET channel == get_channel_info(scanner, memory, index)
              clear == needs_clear(scanner, channel)
              fields == set_channel_info(scanner,
                            BearcatChannel(channel.index, <<>>, 0,
                                determine_modulation(channel.frequency),
                                0, "1", TRUE, FALSE))
          IN /\ chan_op' = "clear_channel"
             /\ target' = index
             /\ stored' = channel
             /\ chan_io' = <<ChanCmd("read", index)>> \o
                           IF ~clear THEN <<>>
                           ELSE IF scanner = "BC125AT"
                           THEN <<ChanCmd("delete", index)>>
                           ELSE <<ChanCmd("write", int(fields[1]))>>
             /\ memory' = IF ~clear THEN memory
                          ELSE IF scanner = "BC125AT"
                          THEN [memory EXCEPT ![index] = Deleted(index)]
                          ELSE [memory EXCEPT ![int(fields[1])] = fields]
    /\ UNCHANGED <<scanner, chan_eq>>
    /\ UNCHANGED engine_vars
    /\ UNCHANGED exec_vars
    /\ UNCHANGED sess_vars
    /\ UNCHANGED pure_vars

NextChan ==
    \/ UpdateChannel
    \/ ClearChannel

SpecChan == InitChan /\ [][NextChan]_vars

\* Channel equality alone, on pairs of Channels.
EqChannels ==
    { Channel(i, n, f, m, t, d, l, p) :
        i \in ChanIndexes, n \in ChanNames, f \in {0, MIN_FREQUENCY_HZ},
        m \in {"AM", "NFM"}, t \in {0, 127}, d \in {"1", "2"},
        l \in BOOLEAN, p \in BOOLEAN }

InitEq ==
    /\ EngineInit
    /\ SessIdle
    /\ ExecIdle
    /\ scanner = "BC125AT"
    /\ memory = <<>>
    /\ chan_op = "none"
    /\ target \in EqChannels
    /\ stored \in EqChannels
    /\ chan_io = <<>>
    /\ chan_eq = "pending"
    /\ chan_calls = 0
    /\ PureIdle

\* stored == target
Compare ==
    /\ chan_eq = "pending"
    /\ chan_eq' = IF __eq__(stored, target) THEN "equal" ELSE "unequal"
    /\ chan_op' = "__eq__"
    /\ UNCHANGED <<scanner, memory, target, stored, chan_io, chan_calls>>
    /\ UNCHANGED engine_vars
    /\ UNCHANGED exec_vars
    /\ UNCHANGED sess_vars
    /\ UNCHANGED pure_vars

NextEq == Compare

SpecEq == InitEq /\ [][NextEq]_vars

\* ---------------------------------------------------------------- claims
InFlight == {c \in Callers : pc[c] \in {"write", "read"}}
Range(f) == {f[i] : i \in DOMAIN f}

\* C1: at most one command is in flight on the Transport.  At most one
\* caller, local or relay, is between its write and its read; it is the
\* holder of the lock, and every byte the device has of an unfinished
\* frame and every line waiting in the input buffer belongs to it.
C1_OneCommandInFlight ==
    /\ Cardinality(InFlight) <= 1
    /\ \A c \in InFlight : cmd_lock = c
    /\ \A i \in 1..Len(devbuf) : devbuf[i].by \in InFlight
    /\ \A i \in 1..Len(rx) : rx[i].by \in InFlight

\* A relay thread is in flight while the local caller and another relay
\* thread wait for the lock.
C1_Witness ==
    /\ pc[Main] = "acquire"
    /\ \E c, d \in Clients :
          c # d /\ pc[c] = "read" /\ rx # <<>> /\ pc[d] = "acquire"

C3_LockReleasedOnEveryExit ==
    cmd_lock = NoHolder \/ pc[cmd_lock] \in {"write", "read"}

\* A relay thread holds the lock after the local caller's round trip ended
\* with a transport exception.
C3_Witness ==
    /\ pc[Main] = "idle"
    /\ outcome.kind = "SerialException"
    /\ cmd_lock \in Clients

\* C4: a program-mode helper call made while the session is Idle issues
\* PRG, the target command and EPG, in that order, and leaves the session
\* Idle; made in ProgramMode it issues the target command alone and leaves
\* the session in ProgramMode.  Stated of the calls that got as far as
\* writing their target command and met no transport exception.
C4_BracketRestoresIdle ==
    ( /\ pc[Main] = "idle" /\ op = "pm"
      /\ cmd \in Range(trips)
      /\ outcome.kind # "SerialException" ) =>
        IF already_program
        THEN trips = <<cmd>> /\ in_program_mode
        ELSE trips = <<"PRG", cmd, "EPG">> /\ ~in_program_mode

\* C5: between the caller's successful enter_program_mode and its next
\* exit_program_mode, a program-mode helper call writes no EPG (and no
\* PRG) and the session stays in ProgramMode.
C5_ExplicitSessionNotExited ==
    (explicit /\ op = "pm") =>
        /\ in_program_mode
        /\ trips \in {<<>>, <<cmd>>}

\* Two helper calls have been made after an explicit enter and the session
\* is still in ProgramMode.
C5_Witness ==
    /\ explicit
    /\ op = "pm"
    /\ calls >= 3
    /\ pc[Main] = "idle"
    /\ outcome.kind = "return"
    /\ trips = <<cmd>>

\* C6: the session starts Idle, and the flag changes only when the PRG
\* (to ProgramMode) or EPG (to Idle) round trip returned exactly OK; an
\* accepted PRG gives ProgramMode, an accepted EPG gives Idle, and a
\* round trip that raises leaves the flag as it was.
AnsweredOK(m) ==
    /\ pc[Main] = "returned"
    /\ req[Main] = <<m, CR>>
    /\ Strip(res[Main].line) = <<m, COMMA, "OK">>

C6_SessionStateMachine ==
    /\ ~in_program_mode
    /\ [][ /\ (in_program_mode' # in_program_mode) =>
                 \/ AnsweredOK("PRG") /\ in_program_mode'
                 \/ AnsweredOK("EPG") /\ ~in_program_mode'
           /\ (AnsweredOK("PRG") /\ pc'[Main] # "returned") => in_program_mode'
           /\ (AnsweredOK("EPG") /\ pc'[Main] # "returned") => ~in_program_mode'
         ]_vars

\* An explicit exit_program_mode raised and the session is still in
\* ProgramMode (entered by an action that returned OK).
C6_Witness ==
    /\ op = "exit"
    /\ pc[Main] = "idle"
    /\ outcome.kind \in {"CommandNotFound", "CommandInvalid", "UnexpectedResultError"}
    /\ in_program_mode

\* The classifier's view of its input and output.
x_parts == res_parts_of(x_line)
x_done == x_out # Pending
x_echo == x_parts[1] = Str(x_command[1])

\* C7: a response whose first field is ERR is CommandNotFound, whatever
\* the issued mnemonic and whatever fields follow.
C7_ErrIsCommandNotFound ==
    (x_done /\ x_parts[1] = <<"ERR">>) => x_out = Raise("CommandNotFound")

\* VOL was issued and the response is ERR followed by further fields.
C7_Witness ==
    /\ x_done
    /\ x_command = <<"VOL">>
    /\ x_parts[1] = <<"ERR">>
    /\ Len(x_parts) >= 2
    /\ x_out.kind = "CommandNotFound"

\* C8: a response whose first field is neither ERR nor the issued mnemonic
\* is UnexpectedResultError; none of its fields is returned.
C8_EchoMismatchIsUnexpected ==
    (x_done /\ x_parts[1] # <<"ERR">> /\ ~x_echo) =>
        x_out = Raise("UnexpectedResultError")

\* VOL was issued and another first field came back with a value.
C8_Witness ==
    /\ x_done
    /\ x_command = <<"VOL">>
    /\ x_parts = << <<"5">>, <<"5">> >>
    /\ x_out.kind = "UnexpectedResultError"

\* C9 as claimed: a response that echoes the issued mnemonic and whose
\* second field is NG is CommandInvalid, whatever fields follow.
C9_EchoNgIsCommandInvalid ==
    (x_done /\ x_echo /\ Len(x_parts) >= 2 /\ x_parts[2] = <<"NG">>) =>
        x_out = Raise("CommandInvalid")

\* C9 as amended: the same for every issued mnemonic other than ERR (a
\* first field ERR is CommandNotFound before the echo is looked at).
C9_EchoNgIsCommandInvalid_Amended ==
    ( /\ x_done /\ x_command[1] # "ERR"
      /\ x_echo /\ Len(x_parts) >= 2 /\ x_parts[2] = <<"NG">> ) =>
        x_out = Raise("CommandInvalid")

\* VOL was issued and the response is VOL,NG followed by a further field.
C9_Witness ==
    /\ x_done
    /\ x_command = <<"VOL">>
    /\ x_parts = << <<"VOL">>, <<"NG">>, <<"5">> >>
    /\ x_out.kind = "CommandInvalid"

\* C10 as claimed: an echo without a further field is
\* UnexpectedResultError, and an echo followed by a field other than NG
\* returns exactly fields[1:], which is not empty.
C10_ReturnsFieldsAfterEcho ==
    /\ (x_done /\ x_echo /\ Len(x_parts) = 1) =>
           x_out = Raise("UnexpectedResultError")
    /\ (x_done /\ x_echo /\ Len(x_parts) >= 2 /\ x_parts[2] # <<"NG">>) =>
           /\ x_out.kind = "return"
           /\ x_out.value = [i \in 1..(Len(x_parts) - 1) |-> x_parts[i + 1]]
           /\ x_out.value # <<>>

\* C10 as amended: the same for every issued mnemonic other than ERR.
C10_ReturnsFieldsAfterEcho_Amended ==
    x_command # <<"ERR">> => C10_ReturnsFieldsAfterEcho

\* VOL was issued and two fields came back after the echo.
C10_Witness ==
    /\ x_done
    /\ x_command = <<"VOL">>
    /\ x_parts = << <<"VOL">>, <<"5">>, <<"5">> >>
    /\ x_out = Return(<< <<"5">>, <<"5">> >>)

\* C11: a read that timed out (an empty response) is UnexpectedResultError,
\* and _execute_command is not retried: the call writes its command at
\* most once, and once its single read has returned the call ends without
\* another write or read, with exactly its own command written.
C11_TimeoutUnexpectedNoRetry ==
    [][ op = "execute" =>
          /\ Len(trips') <= 1
          /\ pc[Main] = "returned" =>
                \/ pc'[Main] = "returned"
                \/ /\ pc'[Main] = "idle"
                   /\ trips' = <<cmd>>
                   /\ req'[Main] = <<>>
                   /\ res[Main].line = <<>> =>
                          outcome' = Raise("UnexpectedResultError")
      ]_vars

\* A direct _execute_command wrote its command once, read nothing before
\* the timeout and raised UnexpectedResultError (no line the device gives
\* to a lone mnemonic is classified so).
C11_Witness ==
    /\ op = "execute"
    /\ pc[Main] = "idle"
    /\ trips = <<cmd>>
    /\ outcome = Raise("UnexpectedResultError")

\* C12: _execute_action succeeds only when the result of _execute_command
\* is exactly one field equal to OK; a result with another number of
\* fields or with another value raises UnexpectedResultError.
C12_ActionNeedsExactlyOk ==
    (x_done /\ x_act # Pending) =>
        /\ x_act.kind = "return" <=> x_out = Return(<< <<"OK">> >>)
        /\ (x_out.kind = "return" /\ x_out.value # << <<"OK">> >>) =>
               x_act = Raise("UnexpectedResultError")

\* The result is OK followed by a second field: the action is refused.
C12_Witness ==
    /\ x_done
    /\ x_command = <<"VOL">>
    /\ x_out = Return(<< <<"OK">>, <<"5">> >>)
    /\ x_act = Raise("UnexpectedResultError")

\* C13: the lock is held for exactly one write-then-read cycle and never
\* across round trips.  It is taken by a caller about to write the first
\* byte of its command; while it is held that caller only writes the
\* bytes of that one command and then reads; the step that ends the read
\* gives the lock up; and a program-mode helper call that goes on to its
\* next round trip (PRG to target, target to EPG) waits for the lock
\* again without holding it, so that another caller can take it.
C13_LockSpansOneRoundTrip ==
    [][ /\ \A c \in Callers :
              /\ (cmd_lock # c /\ cmd_lock' = c) =>
                     pc[c] = "acquire" /\ pc'[c] = "write" /\ wpos'[c] = 0
              /\ (cmd_lock = c /\ cmd_lock' = c) =>
                     /\ req'[c] = req[c]
                     /\ <<pc[c], pc'[c]>> \in { <<"write", "write">>,
                                                <<"write", "read">>,
                                                <<"read", "read">> }
              /\ (cmd_lock = c /\ pc[c] = "read" /\ pc'[c] # "read") =>
                     cmd_lock' # c
        /\ (op = "pm" /\ pc'[Main] = "acquire") => cmd_lock' # Main
      ]_vars

\* A relay thread holds the lock and has its answer waiting while the
\* bracketed call of the local caller, its PRG and target round trips
\* done, waits for the lock to write EPG.
C13_Witness ==
    /\ op = "pm"
    /\ pc[Main] = "acquire"
    /\ trips = <<"PRG", cmd>>
    /\ phase = "epg"
    /\ \E c \in Clients :
          cmd_lock = c /\ pc[c] = "read" /\ rx # <<>> /\ rx[1].by = c

\* The local caller's round trip for the mnemonic m has returned.
Returned(m) == pc[Main] = "returned" /\ req[Main][1] = m

\* C14 as claimed: the flag is changed only by enter_program_mode and
\* exit_program_mode, each right after its own PRG or EPG round trip has
\* returned; every other operation leaves it as it was.
C14_FlagOnlyByEnterExit ==
    [][ in_program_mode' # in_program_mode =>
          \/ phase = "prg" /\ Returned("PRG") /\ in_program_mode'
          \/ phase = "epg" /\ Returned("EPG") /\ ~in_program_mode'
      ]_vars

\* C14 as amended: enter_test_mode changes it as well: it clears the flag
\* right after its TST round trip, when that returned or was classified
\* UnexpectedResultError; a TST that raised CommandNotFound or
\* CommandInvalid leaves the flag set.
C14_FlagOnlyByEnterExit_Amended ==
    [][ /\ in_program_mode' # in_program_mode =>
              \/ phase = "prg" /\ Returned("PRG") /\ in_program_mode'
              \/ phase = "epg" /\ Returned("EPG") /\ ~in_program_mode'
              \/ /\ op = "enter_test_mode" /\ Returned("TST")
                 /\ ~in_program_mode'
                 /\ outcome'.kind = "return"
        /\ ( /\ op = "enter_test_mode" /\ Returned("TST")
             /\ pc'[Main] = "idle"
             /\ outcome'.kind \in {"CommandNotFound", "CommandInvalid"} ) =>
                 in_program_mode'
      ]_vars

\* enter_test_mode has returned after its TST round trip, and the session
\* that was in ProgramMode is Idle without an EPG having been written.
C14_Witness ==
    /\ op = "enter_test_mode"
    /\ pc[Main] = "idle"
    /\ trips = <<"TST">>
    /\ outcome.kind = "return"
    /\ ~in_program_mode

\* The argument of the typed call the local caller made last violates the
\* range or length its wrapper documents.
InvalidInput ==
    \/ op = "set_volume" /\ (input < 0 \/ input > 15)
    \/ op = "delete_channel" /\ (input < 1 \/ input > TOTAL_CHANNELS)
    \/ op = "_set_program_mode_group" /\ Len(input) # 10
    \/ op = "_key_action" /\ (Len(input) # 1 \/ Upper(input[1]) \notin AVAILABLE_KEYS)
    \/ op = "unlock_global_lo" /\ (input < MIN_FREQUENCY_HZ \/ input > MAX_FREQUENCY_HZ)

\* C15: a typed wrapper called with an argument outside its range or
\* length raises before any transport I/O: the call has ended with
\* AssertionError, it never asked for the lock, and it wrote no byte and
\* no command, not even the PRG of a bracket.
C15_PreconditionsBeforeIO ==
    InvalidInput =>
        /\ outcome = Raise("AssertionError")
        /\ pc[Main] = "idle"
        /\ trips = <<>>
        /\ req[Main] = <<>> /\ wpos[Main] = 0
        /\ devbuf = <<>>

\* delete_channel was called with a channel above TOTAL_CHANNELS while
\* the session was Idle (a valid call would have written PRG first), after
\* an earlier call that did its round trip.
C15_Witness ==
    /\ op = "delete_channel"
    /\ input = TOTAL_CHANNELS + 1
    /\ ~in_program_mode
    /\ calls >= 2
    /\ outcome = Raise("AssertionError")
    /\ trips = <<>>

\* What the round trip that has just returned to the local caller raises,
\* if anything: the classification of its response and, for PRG and EPG,
\* the OK check of the action.
EngineErrors == {"CommandNotFound", "CommandInvalid", "UnexpectedResultError"}
RoundTripResult ==
    LET r == _execute_command(<<req[Main][1]>>, res[Main].line)
    IN IF r.kind = "return" /\ phase \in {"prg", "epg"}
                           /\ r.value # << <<"OK">> >>
       THEN Raise("UnexpectedResultError")
       ELSE r

\* C16: the engine does not recover an error.  When a round trip of
\* _execute_command, enter_program_mode, exit_program_mode or
\* _execute_program_mode_command raises CommandNotFound, CommandInvalid
\* or UnexpectedResultError, the call ends there with that very error and
\* with nothing more written; a bracketed call whose PRG failed has
\* written PRG alone, neither its target command nor EPG.
C16_ErrorsPropagate ==
    [][ ( /\ op \in {"execute", "enter", "exit", "pm"}
          /\ pc[Main] = "returned" /\ pc'[Main] # "returned"
          /\ RoundTripResult.kind \in EngineErrors ) =>
            /\ pc'[Main] = "idle"
            /\ outcome' = RoundTripResult
            /\ trips' = trips
            /\ req'[Main] = <<>>
            /\ phase = "prg" => trips' = <<"PRG">>
      ]_vars

\* A bracketed call ended with CommandInvalid raised by its PRG, with PRG
\* the only command written.
C16_Witness ==
    /\ op = "pm"
    /\ pc[Main] = "idle"
    /\ phase = "prg"
    /\ trips = <<"PRG">>
    /\ outcome = Raise("CommandInvalid")
    /\ ~in_program_mode

\* The commands of the kind k among the commands a channel operation issued.
Issued(io, k) == {i \in DOMAIN io : io[i].io = k}

\* C17: update_channel is idempotent.  When update_channel is called
\* again with the same target Channel, right after an update_channel with
\* that target, the second call issues no CIN write.
C17_UpdateChannelIdempotent ==
    [][ ( /\ chan_op = "update_channel" /\ chan_op' = "update_channel"
          /\ chan_calls' = chan_calls + 1
          /\ target' = target ) =>
            Issued(chan_io', "write") = {}
      ]_vars

\* The fields in which the Channels a and b differ.
Differing(a, b) == {fld \in DOMAIN a : a[fld] # b[fld]}

ComparedFields ==
    IF scanner = "BC125AT"
    THEN {"name", "frequency", "modulation", "tone_code", "delay",
          "lockout", "priority"}
    ELSE {"frequency", "delay", "lockout", "priority"}

C19_EqualityIncludesIndex ==
    chan_op = "__eq__" =>
        (chan_eq = "equal" <=> Differing(stored, target) = {})

\* C19 as amended: two Channels are equal exactly when name, frequency,
\* modulation, tone_code, delay, lockout and priority are all equal; the
\* index is not compared, and Channels that differ only in index are
\* equal.
C19_EqualityIncludesIndex_Amended ==
    chan_op = "__eq__" =>
        (chan_eq = "equal" <=> Differing(stored, target) \subseteq {"index"})

\* Two Channels that differ in index alone have been compared.
C19_Witness ==
    /\ chan_op = "__eq__"
    /\ Differing(stored, target) = {"index"}
    /\ chan_eq = "equal"

TONE_ITEMS == <<
    <<"NONE", 0>>, <<"ALL", 0>>, <<"SEARCH", 127>>, <<"NO_TONE", 240>>,
    <<"67.0", 64>>, <<"69.3", 65>>, <<"71.9", 66>>, <<"74.4", 67>>,
    <<"77.0", 68>>, <<"79.7", 69>>, <<"82.5", 70>>, <<"85.4", 71>>,
    <<"88.5", 72>>, <<"91.5", 73>>, <<"94.8", 74>>, <<"97.4", 75>>,
    <<"100.0", 76>>, <<"103.5", 77>>, <<"107.2", 78>>, <<"110.9", 79>>,
    <<"114.8", 80>>, <<"118.8", 81>>, <<"123.0", 82>>, <<"127.3", 83>>,
    <<"131.8", 84>>, <<"136.5", 85>>, <<"141.3", 86>>, <<"146.2", 87>>,
    <<"151.4", 88>>, <<"156.7", 89>>, <<"159.8", 90>>, <<"162.2", 91>>,
    <<"165.5", 92>>, <<"167.9", 93>>, <<"171.3", 94>>, <<"173.8", 95>>,
    <<"177.3", 96>>, <<"179.9", 97>>, <<"183.5", 98>>, <<"186.2", 99>>,
    <<"189.9", 100>>, <<"192.8", 101>>, <<"196.6", 102>>, <<"199.5", 103>>,
    <<"203.5", 104>>, <<"206.5", 105>>, <<"210.7", 106>>, <<"218.1", 107>>,
    <<"225.7", 108>>, <<"229.1", 109>>, <<"233.6", 110>>, <<"241.8", 111>>,
    <<"250.3", 112>>, <<"254.1", 113>>, <<"23", 128>>, <<"25", 129>>,
    <<"26", 130>>, <<"31", 131>>, <<"32", 132>>, <<"36", 133>>,
    <<"43", 134>>, <<"47", 135>>, <<"51", 136>>, <<"53", 137>>,
    <<"54", 138>>, <<"65", 139>>, <<"71", 140>>, <<"72", 141>>,
    <<"73", 142>>, <<"74", 143>>, <<"114", 144>>, <<"115", 145>>,
    <<"116", 146>>, <<"122", 147>>, <<"125", 148>>, <<"131", 149>>,
    <<"132", 150>>, <<"134", 151>>, <<"143", 152>>, <<"145", 153>>,
    <<"152", 154>>, <<"155", 155>>, <<"156", 156>>, <<"162", 157>>,
    <<"165", 158>>, <<"172", 159>>, <<"174", 160>>, <<"205", 161>>,
    <<"212", 162>>, <<"223", 163>>, <<"225", 164>>, <<"226", 165>>,
    <<"243", 166>>, <<"244", 167>>, <<"245", 168>>, <<"246", 169>>,
    <<"251", 170>>, <<"252", 171>>, <<"255", 172>>, <<"261", 173>>,
    <<"263", 174>>, <<"265", 175>>, <<"266", 176>>, <<"271", 177>>,
    <<"274", 178>>, <<"306", 179>>, <<"311", 180>>, <<"315", 181>>,
    <<"325", 182>>, <<"331", 183>>, <<"332", 184>>, <<"343", 185>>,
    <<"346", 186>>, <<"351", 187>>, <<"356", 188>>, <<"364", 189>>,
    <<"365", 190>>, <<"371", 191>>, <<"411", 192>>, <<"412", 193>>,
    <<"413", 194>>, <<"423", 195>>, <<"431", 196>>, <<"432", 197>>,
    <<"445", 198>>, <<"446", 199>>, <<"452", 200>>, <<"454", 201>>,
    <<"455", 202>>, <<"462", 203>>, <<"464", 204>>, <<"465", 205>>,
    <<"466", 206>>, <<"503", 207>>, <<"506", 208>>, <<"516", 209>>,
    <<"523", 210>>, <<"526", 211>>, <<"532", 212>>, <<"546", 213>>,
    <<"565", 214>>, <<"606", 215>>, <<"612", 216>>, <<"624", 217>>,
    <<"627", 218>>, <<"631", 219>>, <<"632", 220>>, <<"654", 221>>,
    <<"662", 222>>, <<"664", 223>>, <<"703", 224>>, <<"712", 225>>,
    <<"723", 226>>, <<"731", 227>>, <<"732", 228>>, <<"734", 229>>,
    <<"743", 230>>, <<"754", 231>> >>

\* A dict display keeps, for each key, the value written last.
dict_of(items) ==
    [k \in {items[i][1] : i \in DOMAIN items} |->
        LET last == CHOOSE i \in DOMAIN items :
                        /\ items[i][1] = k
                        /\ \A j \in DOMAIN items : items[j][1] = k => j <= i
        IN items[last][2]]

\* Mutant: SEARCH is given the code of NO_TONE.
TONE_MAP_search_240 ==
    dict_of([i \in DOMAIN TONE_ITEMS |->
                IF TONE_ITEMS[i][1] = "SEARCH" THEN <<"SEARCH", 240>>
                ELSE TONE_ITEMS[i]])

TONE_MAP == dict_of(TONE_ITEMS)

\* ------------------------------------------------ RadioState and Channel
DISPLAY_WIDTH == 16

\* tone=0, the default of RadioState.__init__: no tone given.
NoTone == "0"

\* A name of n characters.
NameOfLen(n) == [i \in 1..n |-> "a"]

\* Mutant: a given tone is ignored and tone_code is taken.
tone_code_of_ignored(tone, tone_code) == Return(tone_code)

\* `if tone:` of RadioState.__init__, bc125at.py lines 96-100.
tone_code_of(tone, tone_code) ==
    IF tone # NoTone
    THEN IF tone \in DOMAIN TONE_MAP THEN Return(TONE_MAP[tone])
         ELSE Raise("AssertionError")
    ELSE Return(tone_code)

\* Mutant: the sentinel index -1 is rejected.
RadioState_index_assert_no_sentinel(index) ==
    0 < index /\ index <= TOTAL_CHANNELS

\* The assertions of RadioState.__init__, bc125at.py lines 88, 90, 92.
RadioState_index_assert(index) ==
    (0 < index /\ index <= TOTAL_CHANNELS) \/ index = -1

RadioState_name_assert(name) == Len(name) <= DISPLAY_WIDTH

RadioState_frequency_assert(frequency) ==
    \/ MIN_FREQUENCY_HZ <= frequency /\ frequency <= MAX_FREQUENCY_HZ
    \/ frequency = 0

\* BC125AT.RadioState(index, name, frequency, modulation, tone, tone_code),
\* bc125at.py lines 78-100: the object built, or the assertion that failed.
RadioState(index, name, frequency, modulation, tone, tone_code) ==
    IF ~RadioState_index_assert(index) THEN Raise("AssertionError")
    ELSE IF ~RadioState_name_assert(name) THEN Raise("AssertionError")
    ELSE IF ~RadioState_frequency_assert(frequency) THEN Raise("AssertionError")
    ELSE LET code == tone_code_of(tone, tone_code) IN
         IF code.kind # "return" THEN code
         ELSE Return([index |-> index, name |-> name, frequency |-> frequency,
                      modulation |-> modulation, tone_code |-> code.value])

\* The arguments of one construction.
StateArgs(index, name, frequency, tone, tone_code) ==
    [index |-> index, name |-> name, frequency |-> frequency,
     modulation |-> "FM", tone |-> tone, tone_code |-> tone_code]

\* RadioState(**pure_arg)
NewRadioState ==
    /\ pure_fn = "none"
    /\ pure_fn' = "RadioState"
    /\ pure_out' = RadioState(pure_arg.index, pure_arg.name, pure_arg.frequency,
                              pure_arg.modulation, pure_arg.tone,
                              pure_arg.tone_code)
    /\ UNCHANGED pure_arg
    /\ UNCHANGED engine_vars
    /\ UNCHANGED exec_vars
    /\ UNCHANGED sess_vars
    /\ UNCHANGED chan_vars

\* Every tone identifier of the table, a tone that is not in it, and no
\* tone, each with a tone_code argument.
ToneInputs == DOMAIN TONE_MAP \cup {"68.0", NoTone}

InitTone ==
    /\ EngineInit
    /\ SessIdle
    /\ ExecIdle
    /\ ChanIdle
    /\ pure_fn = "none"
    /\ pure_arg \in { StateArgs(1, <<>>, 0, t, c) : t \in ToneInputs, c \in {0, 64} }
    /\ pure_out = Pending

NextTone == NewRadioState

SpecTone == InitTone /\ [][NextTone]_vars

\* ------------------------------------------------------------------ C21
\* C21: the tone table is a bijection: for every (tone, code) pair of
\* TONE_MAP encoding the tone yields that code and decoding the code yields
\* that tone, so no two tone identifiers share a code.
\* Decoding a code is looking up the tone identifiers that carry it.
tones_of(code) == {t \in DOMAIN TONE_MAP : TONE_MAP[t] = code}

Encoded ==
    /\ pure_fn = "RadioState"
    /\ pure_arg.tone \in DOMAIN TONE_MAP

C21_ToneTableBijection ==
    Encoded =>
        /\ pure_out.kind = "return"
        /\ pure_out.value.tone_code = TONE_MAP[pure_arg.tone]
        /\ tones_of(pure_out.value.tone_code) = {pure_arg.tone}

\* C21 amended: encoding the tone of every pair yields its code, and
\* decoding the code yields that tone for every code except 0, which the
\* two identifiers NONE and ALL share.
C21_ToneTableBijection_Amended ==
    Encoded =>
        /\ pure_out.kind = "return"
        /\ pure_out.value.tone_code = TONE_MAP[pure_arg.tone]
        /\ IF pure_out.value.tone_code = 0
           THEN tones_of(0) = {"NONE", "ALL"}
           ELSE tones_of(pure_out.value.tone_code) = {pure_arg.tone}

\* The tone 67.0 Hz has been encoded to 64, or ALL to the shared code 0.
C21_Witness ==
    /\ Encoded
    /\ pure_arg.tone \in {"67.0", "ALL"}
    /\ pure_out.kind = "return"
    /\ pure_out.value.tone_code = (IF pure_arg.tone = "ALL" THEN 0 ELSE 64)

\* ------------------------------------------------------------ group flags
\* bool(c) for a character c of the response: a string is true unless it
\* is empty.
bool_str(c) == c # ""

\* _get_program_mode_group, lines 307-316, applied to what
\* _execute_program_mode_command returned or raised.
_get_program_mode_group(response) ==
    IF response.kind # "return" THEN response
    ELSE IF ~_check_response(response.value, 1)
    THEN Raise("UnexpectedResultError")
    ELSE IF Len(response.value[1]) # 10 THEN Raise("UnexpectedResultError")
    ELSE Return([i \in 1..Len(response.value[1]) |->
                    bool_str(response.value[1][i])])

\* The lists of 10 booleans.
GroupLists == [1..10 -> BOOLEAN]

InitGroup ==
    /\ EngineInit
    /\ SessIdle
    /\ ExecIdle
    /\ ChanIdle
    /\ pure_fn = "none"
    /\ pure_arg \in GroupLists
    /\ pure_out = Pending

\* _set_program_mode_group(cmd, pure_arg), lines 322-326: the flag string
\* the device is given, which it returns to the getter that follows.
SetGroup ==
    /\ pure_fn = "none"
    /\ _set_program_mode_group_assert(pure_arg)
    /\ pure_fn' = "_set_program_mode_group"
    /\ pure_out' = Return(<<state_str_of(pure_arg)>>)
    /\ UNCHANGED pure_arg
    /\ UNCHANGED engine_vars
    /\ UNCHANGED exec_vars
    /\ UNCHANGED sess_vars
    /\ UNCHANGED chan_vars

\* _get_program_mode_group(cmd) with the device answering the string set.
GetGroup ==
    /\ pure_fn = "_set_program_mode_group"
    /\ pure_fn' = "_get_program_mode_group"
    /\ pure_out' = _get_program_mode_group(pure_out)
    /\ UNCHANGED pure_arg
    /\ UNCHANGED engine_vars
    /\ UNCHANGED exec_vars
    /\ UNCHANGED sess_vars
    /\ UNCHANGED chan_vars

NextGroup ==
    \/ SetGroup
    \/ GetGroup

SpecGroup == InitGroup /\ [][NextGroup]_vars

\* ------------------------------------------------------------------ C22
\* C22: for each of the 2^10 lists of 10 booleans, encoding the list as a
\* '0'/'1' string as _set_program_mode_group does and decoding that string
\* as _get_program_mode_group does yields the original list.
C22_GroupRoundTrip ==
    pure_fn = "_get_program_mode_group" =>
        /\ pure_out.kind = "return"
        /\ pure_out.value = pure_arg

\* ------------------------------------------------------------------ codec
\* A byte is a number in 0..255 and a byte string a sequence of bytes.
\* BC125AT.BYTE_MAP, bc125at.py lines 30-44 (BC75XLT.BYTE_MAP is the same
\* table): the bytes 0x80..0xDF, each with its replacement bytes.
BYTE_MAP ==
    128 :> <<226, 150, 136>> @@ 129 :> <<226, 134, 145>> @@
    130 :> <<226, 134, 147>> @@ 131 :> <<76, 111>> @@
    132 :> <<66, 97, 116>> @@ 133 :> <<76, 111>> @@ 134 :> <<99, 107>> @@
    135 :> <<67>> @@ 136 :> <<67>> @@ 137 :> <<67>> @@ 138 :> <<67>> @@
    139 :> <<240, 159, 132, 181>> @@ 140 :> <<240, 159, 132, 191>> @@
    141 :> <<72>> @@ 142 :> <<79>> @@ 143 :> <<76>> @@ 144 :> <<68>> @@
    145 :> <<43>> @@ 146 :> <<240, 159, 132, 178>> @@ 147 :> <<84>> @@
    148 :> <<76>> @@ 149 :> <<76>> @@ 150 :> <<47>> @@ 151 :> <<79>> @@
    152 :> <<32>> @@ 153 :> <<65>> @@ 154 :> <<77>> @@ 155 :> <<32>> @@
    156 :> <<70>> @@ 157 :> <<78>> @@ 158 :> <<70>> @@ 159 :> <<32>> @@
    160 :> <<32>> @@ 161 :> <<80>> @@ 162 :> <<82, 73>> @@ 163 :> <<32>> @@
    164 :> <<32>> @@ 165 :> <<32>> @@ 166 :> <<49>> @@ 167 :> <<50>> @@
    168 :> <<51>> @@ 169 :> <<240, 159, 147, 182>> @@ 170 :> <<52>> @@
    171 :> <<240, 159, 147, 182>> @@ 172 :> <<53>> @@
    173 :> <<240, 159, 147, 182>> @@ 174 :> <<32>> @@ 175 :> <<32>> @@
    176 :> <<32>> @@ 177 :> <<91>> @@ 178 :> <<226, 150, 136>> @@
    179 :> <<93>> @@ 180 :> <<32>> @@ 181 :> <<67>> @@ 182 :> <<67>> @@
    183 :> <<67>> @@ 184 :> <<67>> @@ 185 :> <<32>> @@ 186 :> <<32>> @@
    187 :> <<32>> @@ 188 :> <<32>> @@ 189 :> <<32>> @@ 190 :> <<32>> @@
    191 :> <<32>> @@ 192 :> <<32>> @@ 193 :> <<32>> @@ 194 :> <<32>> @@
    195 :> <<32>> @@ 196 :> <<32>> @@ 197 :> <<83>> @@ 198 :> <<82>> @@
    199 :> <<67, 58>> @@ 200 :> <<32>> @@ 201 :> <<32>> @@ 202 :> <<32>> @@
    203 :> <<32>> @@ 204 :> <<32>> @@ 205 :> <<66>> @@ 206 :> <<78>> @@
    207 :> <<75, 58>> @@ 208 :> <<32>> @@ 209 :> <<32>> @@ 210 :> <<32>> @@
    211 :> <<32>> @@ 212 :> <<83>> @@ 213 :> <<86>> @@ 214 :> <<67, 58>> @@
    215 :> <<68, 58>> @@ 216 :> <<80>> @@ 217 :> <<82>> @@ 218 :> <<73>> @@
    219 :> <<32>> @@ 220 :> <<32>> @@ 221 :> <<32>> @@ 222 :> <<32>> @@
    223 :> <<32>>

\* Mutant: each replacement is put in front of the output built so far.
RECURSIVE _extend_ascii_prepend(_)
_extend_ascii_prepend(input_bytes) ==
    IF input_bytes = <<>> THEN Return(<<>>)
    ELSE LET b == Head(input_bytes)
             rest == _extend_ascii_prepend(Tail(input_bytes))
         IN IF b >= 128 /\ b \notin DOMAIN BYTE_MAP THEN Raise("KeyError")
            ELSE IF rest.kind # "return" THEN rest
            ELSE Return(rest.value \o (IF b < 128 THEN <<b>> ELSE BYTE_MAP[b]))

\* _extend_ascii, lines 199-208: the loop over input_bytes; BYTE_MAP[b]
\* raises KeyError for a byte that is not a key of the table.
RECURSIVE _extend_ascii(_)
_extend_ascii(input_bytes) ==
    IF input_bytes = <<>> THEN Return(<<>>)
    ELSE LET b == Head(input_bytes)
             rest == _extend_ascii(Tail(input_bytes))
         IN IF b >= 128 /\ b \notin DOMAIN BYTE_MAP THEN Raise("KeyError")
            ELSE IF rest.kind # "return" THEN rest
            ELSE Return((IF b < 128 THEN <<b>> ELSE BYTE_MAP[b]) \o rest.value)

\* The ASCII characters that occur, by their byte.
chr ==
    13 :> "\r" @@ 44 :> "," @@ 53 :> "5" @@ 67 :> "C" @@ 69 :> "E" @@
    71 :> "G" @@ 76 :> "L" @@ 78 :> "N" @@ 79 :> "O" @@ 82 :> "R" @@
    86 :> "V" @@ 111 :> "o"

\* The characters whose UTF-8 encodings are entries of BYTE_MAP.
Glyphs ==
    <<226, 150, 136>> :> "U+2588" @@ <<226, 134, 145>> :> "U+2191" @@
    <<226, 134, 147>> :> "U+2193" @@ <<240, 159, 132, 181>> :> "U+1F135" @@
    <<240, 159, 132, 191>> :> "U+1F13F" @@
    <<240, 159, 132, 178>> :> "U+1F132" @@
    <<240, 159, 147, 182>> :> "U+1F4F6"

\* bytes.decode('UTF-8'), line 233, on the output of _extend_ascii: one
\* character per ASCII byte and per encoded glyph.
RECURSIVE decode_utf8(_)
decode_utf8(bytes) ==
    IF bytes = <<>> THEN <<>>
    ELSE IF Head(bytes) < 128
    THEN <<chr[Head(bytes)]>> \o decode_utf8(Tail(bytes))
    ELSE LET n == IF Head(bytes) >= 240 THEN 4 ELSE 3
         IN <<Glyphs[SubSeq(bytes, 1, n)]>>
            \o decode_utf8(SubSeq(bytes, n + 1, Len(bytes)))

\* The string as the tokens of the text model: a comma or a whitespace
\* character stands alone, the characters between them form one token.
RECURSIVE TokensOf(_)
TokensOf(chars) ==
    IF chars = <<>> THEN <<>>
    ELSE LET rest == TokensOf(Tail(chars))
             c == Head(chars)
             sep(t) == t = COMMA \/ t \in Whitespace
         IN IF sep(c) \/ rest = <<>> \/ sep(Head(rest)) THEN <<c>> \o rest
            ELSE <<c \o Head(rest)>> \o Tail(rest)

\* _execute_command from line 233 on, given the bytes read: decoded by
\* _extend_ascii and UTF-8, then classified.
_execute_command_of_bytes(command, res_bytes) ==
    LET extended == _extend_ascii(res_bytes) IN
    IF extended.kind # "return" THEN extended
    ELSE _execute_command(command, TokensOf(decode_utf8(extended.value)))

MaxBytes == 3          \* bytes of a response after its first fields

\* 'VOL', 'ERR', ',', 'NG' and '\r' in ASCII.
VOL_bytes == <<86, 79, 76>>
ERR_bytes == <<69, 82, 82>>
ResponseHeads == { <<>>, VOL_bytes, VOL_bytes \o <<44>>,
                   VOL_bytes \o <<44, 78, 71>>, ERR_bytes }
\* '5', ',', a byte replaced by 'Lo', a byte replaced by a UTF-8 glyph, and
\* a byte that is not in the table.
PayloadBytes == {53, 44, 131, 128, 224}
Payloads == UNION {[1..k -> PayloadBytes] : k \in 0..MaxBytes}
ResponseBytes ==
    { head \o payload \o tail :
        head \in ResponseHeads, payload \in Payloads, tail \in {<<>>, <<13>>} }

InitCodec ==
    /\ EngineInit
    /\ SessIdle
    /\ ExecIdle
    /\ ChanIdle
    /\ pure_fn = "none"
    /\ pure_arg \in ResponseBytes
    /\ pure_out = Pending

\* self._extend_ascii(pure_arg)
ExtendAscii ==
    /\ pure_fn = "none"
    /\ pure_fn' = "_extend_ascii"
    /\ pure_out' = _extend_ascii(pure_arg)
    /\ UNCHANGED pure_arg
    /\ UNCHANGED engine_vars
    /\ UNCHANGED exec_vars
    /\ UNCHANGED sess_vars
    /\ UNCHANGED chan_vars

\* self._extend_ascii(<what the call before returned>)
ExtendAsciiAgain ==
    /\ pure_fn = "_extend_ascii"
    /\ pure_out.kind = "return"
    /\ pure_fn' = "_extend_ascii again"
    /\ pure_out' = _extend_ascii(pure_out.value)
    /\ UNCHANGED pure_arg
    /\ UNCHANGED engine_vars
    /\ UNCHANGED exec_vars
    /\ UNCHANGED sess_vars
    /\ UNCHANGED chan_vars

\* _execute_command('VOL') with the device answering pure_arg.
ExecuteBytes ==
    /\ pure_fn = "none"
    /\ pure_fn' = "_execute_command"
    /\ pure_out' = _execute_command_of_bytes(<<"VOL">>, pure_arg)
    /\ UNCHANGED pure_arg
    /\ UNCHANGED engine_vars
    /\ UNCHANGED exec_vars
    /\ UNCHANGED sess_vars
    /\ UNCHANGED chan_vars

NextCodec ==
    \/ ExtendAscii
    \/ ExtendAsciiAgain
    \/ ExecuteBytes

SpecCodec == InitCodec /\ [][NextCodec]_vars

\* ------------------------------------------------------------------ C23
\* C23: for any byte sequence containing only mapped high bytes and
\* printable ASCII, applying the decode substitution to the output of
\* decode leaves it unchanged.
Printable(b) == 32 <= b /\ b < 127
MappedOrPrintable(bytes) ==
    \A i \in 1..Len(bytes) : Printable(bytes[i]) \/ bytes[i] \in DOMAIN BYTE_MAP

C23_DecodeIdempotent ==
    [][ /\ pure_fn' = "_extend_ascii again"
        /\ MappedOrPrintable(pure_arg)
        => pure_out' = pure_out ]_vars

\* ------------------------------------------------------ the group getters
\* BC125AT.get_close_call_settings, bc125at.py lines 310-324, applied to
\* what _execute_program_mode_command('CLC') returned or raised.
get_close_call_settings(response) ==
    IF response.kind # "return" THEN response
    ELSE IF ~_check_response(response.value, 5)
    THEN Raise("UnexpectedResultError")
    ELSE Return(<< response.value[1][1], bool_int(response.value[2]),
                   bool_int(response.value[3]),
                   [i \in 1..Len(response.value[4]) |->
                       bool_str(response.value[4][i])],
                   bool_int(response.value[5]) >>)

\* The group commands and the number of flags of each.
GroupWidth == [SCG |-> 10, SSG |-> 10, CSG |-> 10, CLC |-> 5]

\* The flag strings the device may answer: of the width of a group, one
\* flag short or one flag long.
FlagStrings ==
    UNION {[1..k -> {"0", "1"}] : k \in {4, 5, 6, 9, 10, 11}}

InitGetter ==
    /\ EngineInit
    /\ SessIdle
    /\ ExecIdle
    /\ ChanIdle
    /\ pure_fn = "none"
    /\ pure_arg \in [cmd : DOMAIN GroupWidth, flags : FlagStrings]
    /\ pure_out = Pending

\* get_scan_channel_group(), get_service_search_group() and
\* get_custom_search_group(): _get_program_mode_group(cmd) with the device
\* answering cmd,<flags>.
GetFlagGroup ==
    /\ pure_fn = "none"
    /\ pure_arg.cmd # "CLC"
    /\ pure_fn' = "_get_program_mode_group"
    /\ pure_out' = _get_program_mode_group(Return(<<pure_arg.flags>>))
    /\ UNCHANGED pure_arg
    /\ UNCHANGED engine_vars
    /\ UNCHANGED exec_vars
    /\ UNCHANGED sess_vars
    /\ UNCHANGED chan_vars

\* get_close_call_settings() with the device answering CLC,1,1,0,<flags>,1.
GetCloseCallSettings ==
    /\ pure_fn = "none"
    /\ pure_arg.cmd = "CLC"
    /\ pure_fn' = "get_close_call_settings"
    /\ pure_out' = get_close_call_settings(
                       Return(<<Str("1"), Str("1"), Str("0"), pure_arg.flags,
                                Str("1")>>))
    /\ UNCHANGED pure_arg
    /\ UNCHANGED engine_vars
    /\ UNCHANGED exec_vars
    /\ UNCHANGED sess_vars
    /\ UNCHANGED chan_vars

NextGetter ==
    \/ GetFlagGroup
    \/ GetCloseCallSettings

SpecGetter == InitGetter /\ [][NextGetter]_vars

\* ------------------------------------------------------------------ C26
\* C26: a group getter raises UnexpectedResult whenever the flag string
\* returned by the device does not have exactly the expected width, for
\* the 10-flag groups (SCG, SSG, CSG) and for the 5-flag close-call band
\* group (CLC).
C26_GroupWidthMismatchRaises ==
    /\ pure_fn \in {"_get_program_mode_group", "get_close_call_settings"}
    /\ Len(pure_arg.flags) # GroupWidth[pure_arg.cmd]
    => pure_out = Raise("UnexpectedResultError")

\* --------------------------------------------------------------- encoding
\* str.upper() on a field.
upper(field) == [i \in 1..Len(field) |-> Upper(field[i])]

\* Mutant: every field is uppercased, the name of a CIN command included.
cmd_str_of_upper_all(command) ==
    Join([i \in 1..Len(command) |-> upper(command[i])]) \o <<CR>>

\* cmd_str of _execute_command, lines 223-226; command is the tuple of
\* fields given by the wrapper, command[3] here being Python's command[2].
cmd_str_of(command) ==
    IF upper(command[1]) = Str("CIN")
    THEN Join([i \in 1..Len(command) |->
                  IF i # 3 THEN upper(command[i]) ELSE command[i]]) \o <<CR>>
    ELSE upper(Join(command)) \o <<CR>>

MaxFields == 3         \* fields of a command after its mnemonic

\* The mnemonics and the fields a caller may give, in either case.
EncodeMnemonics == {Str("CIN"), Str("cin"), Str("VOL"), Str("vol")}
EncodeFields == {<<>>, Str("1"), Str("Tower"), Str("ng")}
EncodeCommands ==
    { <<m>> \o a : m \in EncodeMnemonics,
                   a \in UNION {[1..k -> EncodeFields] : k \in 0..MaxFields} }

InitEncode ==
    /\ EngineInit
    /\ SessIdle
    /\ ExecIdle
    /\ ChanIdle
    /\ pure_fn = "none"
    /\ pure_arg \in EncodeCommands
    /\ pure_out = Pending

\* cmd_bytes of _execute_command(*pure_arg), lines 223-227.
Encode ==
    /\ pure_fn = "none"
    /\ pure_fn' = "encode"
    /\ pure_out' = Return(cmd_str_of(pure_arg))
    /\ UNCHANGED pure_arg
    /\ UNCHANGED engine_vars
    /\ UNCHANGED exec_vars
    /\ UNCHANGED sess_vars
    /\ UNCHANGED chan_vars

\* The rest of _execute_command(*pure_arg), lines 228-249, when the
\* scanner echoes the mnemonic it received, followed by a value.
ExecuteEchoed ==
    /\ pure_fn = "encode"
    /\ pure_fn' = "_execute_command"
    /\ pure_out' = _execute_command(<<pure_arg[1][1]>>,
                                    <<pure_out.value[1], COMMA, "5", CR>>)
    /\ UNCHANGED pure_arg
    /\ UNCHANGED engine_vars
    /\ UNCHANGED exec_vars
    /\ UNCHANGED sess_vars
    /\ UNCHANGED chan_vars

NextEncode ==
    \/ Encode
    \/ ExecuteEchoed

SpecEncode == InitEncode /\ [][NextEncode]_vars

\* ------------------------------------------------------------------ C27
\* C27: the encoded command is the fields joined with ',' followed by
\* exactly one carriage return, every field uppercased except field 2 of a
\* CIN command (the name), which is transmitted in its original case.
IsCIN(command) == command[1] \in {Str("CIN"), Str("cin")}
SentField(command, i) ==
    IF IsCIN(command) /\ i = 3 THEN command[i]
    ELSE [j \in 1..Len(command[i]) |-> Upper(command[i][j])]

Image(b) == IF b < 128 THEN <<b>> ELSE BYTE_MAP[b]

RECURSIVE ImagesInOrder(_)
ImagesInOrder(bytes) ==
    IF bytes = <<>> THEN <<>>
    ELSE ImagesInOrder(SubSeq(bytes, 1, Len(bytes) - 1))
         \o Image(bytes[Len(bytes)])

AllMapped(bytes) ==
    \A i \in 1..Len(bytes) : bytes[i] < 128 \/ bytes[i] \in DOMAIN BYTE_MAP

HasUnmappedByte(bytes) ==
    \E i \in 1..Len(bytes) : bytes[i] >= 128 /\ bytes[i] \notin DOMAIN BYTE_MAP

C29_UnmappedByteNotFatal ==
    pure_fn = "_execute_command" /\ HasUnmappedByte(pure_arg) =>
        pure_out.kind \in {"CommandNotFound", "CommandInvalid",
                           "UnexpectedResultError", "return"}

\* --------------------------------------------- construction of the states
\* BC125AT.Channel(index, name, frequency, modulation, tone, tone_code,
\* delay, lockout, priority), bc125at.py lines 117-135: the RadioState
\* part is built first, by super().__init__.
Channel__init__(index, name, frequency, modulation, tone, tone_code, delay, lockout, priority) ==
    LET state == RadioState(index, name, frequency, modulation, tone, tone_code)
    IN IF state.kind # "return" THEN state
       ELSE Return(Channel(index, state.value.name, state.value.frequency,
                           state.value.modulation, state.value.tone_code,
                           delay, lockout, priority))

\* RadioState.from_glg_response, bc125at.py lines 102-109; r is the list of
\* the 12 fields after the echo.
from_glg_response(r) ==
    LET number == IF r[11] # <<>> THEN int(r[11]) ELSE -1
    IN RadioState(number, r[7], int(r[1]) * FREQUENCY_SCALE, r[2][1],
                  NoTone, int(r[4]))

\* Arguments at, next to and beyond the limits the assertions name.
StateIndexes == {-2, -1, 0, 1, TOTAL_CHANNELS, TOTAL_CHANNELS + 1}
StateNames == {NameOfLen(n) : n \in {0, DISPLAY_WIDTH, DISPLAY_WIDTH + 1}}
StateFrequencies == {0, FREQUENCY_SCALE, MIN_FREQUENCY_HZ - FREQUENCY_SCALE,
                     MIN_FREQUENCY_HZ, MAX_FREQUENCY_HZ,
                     MAX_FREQUENCY_HZ + FREQUENCY_SCALE}

\* The GLG responses: frequency, modulation, attenuation, tone code, search
\* name, group name, channel name, squelched, muted, a field not used, the
\* index (empty while the scanner is not on a stored channel), a field not
\* used.
GlgResponses ==
    { << str(f \div FREQUENCY_SCALE), Str("FM"), Str("0"), str(0), <<>>, <<>>,
         n, Str("0"), Str("0"), <<>>, i, <<>> >> :
        f \in StateFrequencies, n \in StateNames,
        i \in {<<>>} \cup {str(k) : k \in StateIndexes \ {-2, -1}} }

InitState ==
    /\ EngineInit
    /\ SessIdle
    /\ ExecIdle
    /\ ChanIdle
    /\ pure_fn = "none"
    /\ \/ pure_arg \in { StateArgs(i, n, f, NoTone, 0) :
                           i \in StateIndexes, n \in StateNames,
                           f \in StateFrequencies }
       \/ pure_arg \in { [response |-> r] : r \in GlgResponses }
    /\ pure_out = Pending

\* RadioState(**pure_arg)
ConstructRadioState ==
    /\ "index" \in DOMAIN pure_arg
    /\ NewRadioState

\* Channel(**pure_arg) with the default delay, lockout and priority.
ConstructChannel ==
    /\ pure_fn = "none"
    /\ "index" \in DOMAIN pure_arg
    /\ pure_fn' = "Channel"
    /\ pure_out' = Channel__init__(pure_arg.index, pure_arg.name,
                                   pure_arg.frequency, pure_arg.modulation,
                                   pure_arg.tone, pure_arg.tone_code,
                                   "2", TRUE, FALSE)
    /\ UNCHANGED pure_arg
    /\ UNCHANGED engine_vars
    /\ UNCHANGED exec_vars
    /\ UNCHANGED sess_vars
    /\ UNCHANGED chan_vars

\* RadioState.from_glg_response(*response) in get_reception_status.
FromGlgResponse ==
    /\ pure_fn = "none"
    /\ "response" \in DOMAIN pure_arg
    /\ pure_fn' = "from_glg_response"
    /\ pure_out' = from_glg_response(pure_arg.response)
    /\ UNCHANGED pure_arg
    /\ UNCHANGED engine_vars
    /\ UNCHANGED exec_vars
    /\ UNCHANGED sess_vars
    /\ UNCHANGED chan_vars

NextState ==
    \/ ConstructRadioState
    \/ ConstructChannel
    \/ FromGlgResponse

SpecState == InitState /\ [][NextState]_vars

\* ------------------------------------------------------------------ C30
\* C30: every RadioState or Channel that exists has an index in
\* 1..TOTAL_CHANNELS or the sentinel -1, a name of at most DISPLAY_WIDTH
\* characters and a frequency that is 0 or within
\* [MIN_FREQUENCY_HZ, MAX_FREQUENCY_HZ]; construction with any other value
\* fails, and a reception status with an empty index field yields index -1.
ValidIndex(i) == i \in 1..TOTAL_CHANNELS \/ i = -1
ValidName(n) == Len(n) <= DISPLAY_WIDTH
ValidFrequency(f) == f = 0 \/ (f >= MIN_FREQUENCY_HZ /\ f <= MAX_FREQUENCY_HZ)
ValidState(s) ==
    ValidIndex(s.index) /\ ValidName(s.name) /\ ValidFrequency(s.frequency)

C30_StateFieldsInRange ==
    /\ pure_fn \in {"RadioState", "Channel", "from_glg_response"} =>
          IF pure_out.kind = "return" THEN ValidState(pure_out.value)
          ELSE pure_out.kind = "AssertionError"
    /\ pure_fn \in {"RadioState", "Channel"} =>
          (pure_out.kind = "return" <=> ValidState(pure_arg))
    /\ pure_fn = "from_glg_response" /\ pure_arg.response[11] = <<>> =>
          LET r == pure_arg.response IN
          IF ValidName(r[7]) /\ ValidFrequency(int(r[1]) * FREQUENCY_SCALE)
          THEN pure_out.kind = "return" /\ pure_out.value.index = -1
          ELSE pure_out.kind = "AssertionError"

\* A reception status without an index has given a state with index -1,
\* on the highest frequency and with a name of the full display width.
C30_Witness ==
    /\ pure_fn = "from_glg_response"
    /\ pure_arg.response[11] = <<>>
    /\ pure_arg.response[1] = str(MAX_FREQUENCY_HZ \div FREQUENCY_SCALE)
    /\ Len(pure_arg.response[7]) = DISPLAY_WIDTH
    /\ pure_out.kind = "return"
    /\ pure_out.value.index = -1
    /\ pure_out.value.frequency = MAX_FREQUENCY_HZ

\* ------------------------------------------- the relay on arbitrary chunks
\* What s.recv(4096) may return to the thread of the first client: a whole
\* frame, the beginning of a frame, or two frames at once.  The other
\* clients send whole frames only.
RelayChunks == { <<"STS", CR>>, <<"ST">>, <<"STS", CR, "STS", CR>> }
ChunksOf(c) == IF c = ClientIds[1] THEN RelayChunks ELSE ClientChunks

\* recv_bytes = s.recv(4096), not empty: forwarded as it is.
RelayRecv(c) ==
    /\ pc[c] = "recv"
    /\ chunks < MaxChunks
    /\ \E chunk \in ChunksOf(c) : Enter(c, chunk)
    /\ chunks' = chunks + 1
    /\ UNCHANGED <<cmd_lock, in_program_mode, devbuf, rx, res>>
    /\ UNCHANGED local_vars
    /\ UNCHANGED exec_vars
    /\ UNCHANGED sess_vars
    /\ UNCHANGED pure_vars
    /\ UNCHANGED chan_vars

\* The local caller makes its first direct call beside the relay.
RelayCallExecute ==
    /\ calls = 0
    /\ CallExecute

NextRelay ==
    \/ RelayCallExecute
    \/ TargetReturn
    \/ \E c \in Callers : Acquire(c)
    \/ \E c \in Callers : WriteByte(c)
    \/ \E c \in Callers : WriteRaise(c)
    \/ \E c \in Callers : Read(c)
    \/ \E c \in Callers : ReadRaise(c)
    \/ \E c \in Clients : RelayRecv(c)
    \/ \E c \in Clients : ClientEOF(c)
    \/ \E c \in Clients : ClientSend(c)

SpecRelay == Init /\ [][NextRelay]_vars

\* ------------------------------------------------------------------ C24
\* C24: a relay client that sends a partial frame, several frames in one
\* chunk or bytes the device does not answer, or that disconnects, affects
\* only its own forwarding task: the commands of every other client and of
\* the local caller are written intact and receive their own responses.
\* Whatever another caller has read is the device's answer to the frame
\* that caller wrote, made of that caller's bytes only.
WellBehaved == Callers \ {ClientIds[1]}

C24_RelayFailureIsolation ==
    \A c \in WellBehaved :
        (pc[c] = "returned" /\ res[c] # NoRes) =>
            /\ res[c].by = c
            /\ res[c].frame \o <<CR>> = req[c]

\* ------------------------------------------------------------------ C25
\* C25: a relay forwarding task handles its client's chunks one at a time
\* (read a chunk, forward it under the lock, write the raw response back,
\* then read the next chunk) and terminates, closing the connection, when
\* the client closes its connection or sends zero bytes; it never
\* terminates while the client keeps sending non-empty chunks that are
\* answered.  A thread moves only along recv, acquire, write, read,
\* returned and back to recv; it takes a new chunk only at recv, it writes
\* and reads only while it holds the lock, it closes only from recv, on
\* zero bytes, and it ends otherwise only when the transport raised during
\* the write or the read, before any answer.
RelaySteps ==
    { <<"recv", "acquire">>, <<"acquire", "write">>, <<"write", "read">>,
      <<"read", "returned">>, <<"returned", "recv">>, <<"recv", "closed">>,
      <<"write", "dead">>, <<"read", "dead">> }

UNDERLINE_START == <<"ESC", "[", "4", "m">>
UNDERLINE_STOP == <<"ESC", "[", "0", "m">>

\* text[:k] and text[k:] of a Python string (k >= 0, clipped to the length).
slice_to(text, k) == SubSeq(text, 1, IF k < Len(text) THEN k ELSE Len(text))
slice_from(text, k) ==
    SubSeq(text, (IF k < Len(text) THEN k ELSE Len(text)) + 1, Len(text))

\* The body of `for i, c in enumerate(self.formatting)` from index i on
\* (i counts from 0 as in the code), followed by the trailing
\* `if underline: text += '\033[0m'`.
RECURSIVE Line__str__loop(_, _, _, _)
Line__str__loop(text, formatting, i, underline) ==
    IF i >= Len(formatting)
    THEN IF underline THEN text \o UNDERLINE_STOP ELSE text
    ELSE LET c == formatting[i + 1] IN
         IF c = "*" /\ ~underline
         THEN Line__str__loop(slice_to(text, i) \o UNDERLINE_START
                                \o slice_from(text, i),
                              formatting, i + 1, TRUE)
         ELSE IF c # "*" /\ underline
         THEN Line__str__loop(slice_to(text, i + 1) \o UNDERLINE_STOP
                                \o slice_from(text, i + 1),
                              formatting, i + 1, FALSE)
         ELSE Line__str__loop(text, formatting, i + 1, underline)

\* Screen.Line.__str__
Line__str__(text, formatting) == Line__str__loop(text, formatting, 0, FALSE)

MaxText == 4
ScreenChars == {"A", "B"}
ScreenMarkers == {"*", " "}
ScreenLines ==
    UNION { { [text |-> t, formatting |-> f] :
                t \in [1..n -> ScreenChars], f \in [1..n -> ScreenMarkers] } :
            n \in 1..MaxText }

InitScreen ==
    /\ EngineInit
    /\ SessIdle
    /\ ExecIdle
    /\ ChanIdle
    /\ pure_fn = "none"
    /\ pure_arg \in ScreenLines
    /\ pure_out = Pending

\* str(Screen.Line(text, formatting, large))
RenderLine ==
    /\ pure_fn = "none"
    /\ pure_fn' = "Line.__str__"
    /\ pure_out' = Return(Line__str__(pure_arg.text, pure_arg.formatting))
    /\ UNCHANGED pure_arg
    /\ UNCHANGED engine_vars
    /\ UNCHANGED exec_vars
    /\ UNCHANGED sess_vars
    /\ UNCHANGED chan_vars

NextScreen == RenderLine

SpecScreen == InitScreen /\ [][NextScreen]_vars

\* ------------------------------------------------------------------ C31
\* What a terminal makes of a rendered line: the characters it shows, each
\* with whether underlining was on when it was shown.  A start or stop
\* sequence switches underlining and shows nothing; any other character
\* (a stray ESC included) is shown.
IsAt(s, i, e) == i + Len(e) - 1 <= Len(s) /\ SubSeq(s, i, i + Len(e) - 1) = e
RECURSIVE Shown(_, _, _)
Shown(s, i, underline) ==
    IF i > Len(s) THEN <<>>
    ELSE IF IsAt(s, i, UNDERLINE_START) THEN Shown(s, i + 4, TRUE)
    ELSE IF IsAt(s, i, UNDERLINE_STOP) THEN Shown(s, i + 4, FALSE)
    ELSE <<[char |-> s[i], underlined |-> underline]>>
           \o Shown(s, i + 1, underline)

\* C31: removing the underline-start and underline-stop sequences from the
\* rendered line gives back the text, and the characters between a start
\* and its stop are exactly those whose formatting character is '*'.
C31_UnderlinesExactlyMarkedRuns ==
    pure_fn = "Line.__str__" =>
        Shown(pure_out.value, 1, FALSE) =
            [i \in 1..Len(pure_arg.text) |->
                [char |-> pure_arg.text[i],
                 underlined |-> pure_arg.formatting[i] = "*"]]

\* ------------------------------------------------------------------ C33
\* The local caller's bracketed call started from Idle and the response to
\* its target command makes _execute_command raise.
TargetRaises ==
    /\ pc[Main] = "returned"
    /\ phase = "target"
    /\ op \in Bracketed
    /\ ~already_program
    /\ _execute_command(<<cmd>>, res[Main].line).kind \in EngineErrors

\* C33: when the target command of a bracketed call that started from Idle
\* raises, the error reaches the caller only after EPG has been issued and
\* with in_program_mode False.
C33_TargetErrorRestoresIdle ==
    [][ (TargetRaises /\ pc'[Main] = "idle") =>
            /\ "EPG" \in Range(trips')
            /\ ~in_program_mode' ]_vars

\* ------------------------------------------- threads sharing one engine
\* The same engine, one step per frame: several threads of the process make
\* typed calls, a relay thread forwards raw chunks, and the scanner has a
\* mode of its own and may answer a frame late or never.  The byte-level
\* variables of the engine are not used here.
sess_rest == <<devbuf, pc, req, wpos, res, op, cmd, args, input, phase,
               already_program, trips, outcome, explicit>>

\* BearcatBase.__init__, lines 148-165: a dotted address selects the
\* socket, a port name the serial port.
InitSession ==
    /\ EngineInit
    /\ ExecIdle
    /\ ChanIdle
    /\ PureIdle
    /\ transport \in {"serial", "socket"}
    /\ device = DeviceStart
    /\ thread = [t \in Threads |-> ThreadStart(t)]

\* The round trip a thread is in: its call and which command of the call.
ReqId(t) == <<t, thread[t].call, thread[t].phase>>

\* The mnemonic of that round trip.
SessFrame(t) ==
    IF thread[t].phase = "prg" THEN "PRG"
    ELSE IF thread[t].phase = "epg" THEN "EPG"
    ELSE thread[t].cmd

MaxSessCalls == 2     \* typed calls the threads make between them
MaxRelayed == 1       \* chunks the relay thread forwards

\* The thread that opens the session itself and queries the status, and
\* the thread that calls the helpers.
User == "t1"
Helper == "t2"

\* A thread calls a method of the engine.
SessStart(t, o, m, ph, ap, ex) ==
    /\ thread[t].pc = "idle"
    /\ calls < MaxSessCalls
    /\ calls' = calls + 1
    /\ thread' = [thread EXCEPT ![t] =
                    [pc |-> "acquire", op |-> o, cmd |-> m, phase |-> ph,
                     already_program |-> ap, explicit |-> ex,
                     call |-> calls + 1, res |-> NoReply,
                     outcome |-> Pending]]
    /\ UNCHANGED <<cmd_lock, in_program_mode, rx, chunks, transport, device>>
    /\ UNCHANGED sess_rest
    /\ UNCHANGED exec_vars
    /\ UNCHANGED chan_vars
    /\ UNCHANGED pure_vars

\* enter_program_mode() (line 332)
SessCallEnter(t) ==
    SessStart(t, "enter", "PRG", "prg", FALSE, thread[t].explicit)

\* exit_program_mode() (line 337): the thread ends its explicit session.
SessCallExit(t) ==
    SessStart(t, "exit", "EPG", "epg", FALSE, FALSE)

\* _execute_program_mode_command('BLT'), lines 283-287: the flag is read
\* before the first round trip.
SessCallProgramMode(t) ==
    LET ap == already_program_of(in_program_mode)
    IN SessStart(t, "pm", "BLT", IF ap THEN "target" ELSE "prg", ap,
                 thread[t].explicit)

\* _execute_command('STS') (line 220)
SessCallExecute(t) ==
    SessStart(t, "execute", "STS", "target", FALSE, thread[t].explicit)

\* recv_bytes = s.recv(4096) in _client_listener: a raw PRG or EPG frame.
SessRelayRecv ==
    /\ thread[RelayThread].pc = "recv"
    /\ chunks < MaxRelayed
    /\ chunks' = chunks + 1
    /\ \E m \in {"PRG", "EPG"} :
          thread' = [thread EXCEPT ![RelayThread] =
                       [@ EXCEPT !.pc = "acquire", !.op = "raw", !.cmd = m,
                                 !.phase = "target", !.call = chunks + 1]]
    /\ UNCHANGED <<cmd_lock, in_program_mode, rx, calls, transport, device>>
    /\ UNCHANGED sess_rest
    /\ UNCHANGED exec_vars
    /\ UNCHANGED chan_vars
    /\ UNCHANGED pure_vars

\* with self._cmd_lock: (line 212)
SessAcquire(t) ==
    /\ thread[t].pc = "acquire"
    /\ _cmd_lock_acquire(cmd_lock)
    /\ cmd_lock' = t
    /\ thread' = [thread EXCEPT ![t].pc = "write"]
    /\ UNCHANGED <<in_program_mode, rx, calls, chunks, transport, device>>
    /\ UNCHANGED sess_rest
    /\ UNCHANGED exec_vars
    /\ UNCHANGED chan_vars
    /\ UNCHANGED pure_vars

\* self._serial.write(command) / self._socket.sendall(command), lines 214
\* and 217: the scanner has the frame.
SessWrite(t) ==
    /\ thread[t].pc = "write"
    /\ device' = [device EXCEPT !.pending =
                    Append(@, [from |-> ReqId(t), frame |-> SessFrame(t)])]
    /\ thread' = [thread EXCEPT ![t].pc = "read"]
    /\ UNCHANGED <<cmd_lock, in_program_mode, rx, calls, chunks, transport>>
    /\ UNCHANGED sess_rest
    /\ UNCHANGED exec_vars
    /\ UNCHANGED chan_vars
    /\ UNCHANGED pure_vars

\* What the scanner answers to a frame and the mode it is in afterwards:
\* PRG and EPG are accepted or refused, a configuration command is refused
\* outside program mode, a status query is always answered.
DeviceReplies(frame, program) ==
    IF frame = "PRG"
    THEN { [line |-> <<"PRG", COMMA, "OK", CR>>, program |-> TRUE],
           [line |-> <<"PRG", COMMA, "NG", CR>>, program |-> program] }
    ELSE IF frame = "EPG"
    THEN { [line |-> <<"EPG", COMMA, "OK", CR>>, program |-> FALSE],
           [line |-> <<"EPG", COMMA, "NG", CR>>, program |-> program] }
    ELSE IF frame = "STS"
    THEN { [line |-> <<"STS", COMMA, "5", CR>>, program |-> program] }
    ELSE { [line |-> <<frame, COMMA, IF program THEN "5" ELSE "NG", CR>>,
            program |-> program] }

\* The scanner acts on the oldest frame it has and answers it, at a time
\* of its own choosing: before the reader's timeout, after it, or never.
DeviceAnswer ==
    /\ device.pending # <<>>
    /\ LET f == Head(device.pending)
       IN \E reply \in DeviceReplies(f.frame, device.program) :
             /\ rx' = Append(rx, [to |-> f.from, line |-> reply.line])
             /\ device' = [program |-> reply.program,
                           pending |-> Tail(device.pending)]
    /\ UNCHANGED <<cmd_lock, in_program_mode, calls, chunks, transport, thread>>
    /\ UNCHANGED sess_rest
    /\ UNCHANGED exec_vars
    /\ UNCHANGED chan_vars
    /\ UNCHANGED pure_vars

\* return self._serial.readline() / self._socket.recv(4096) with a line to
\* read: the oldest line received, whatever frame it answers.
SessRead(t) ==
    /\ thread[t].pc = "read"
    /\ rx # <<>>
    /\ thread' = [thread EXCEPT ![t] =
                    [@ EXCEPT !.pc = "returned", !.res = Head(rx)]]
    /\ rx' = Tail(rx)
    /\ cmd_lock' = _cmd_lock_exit(t, FALSE)
    /\ UNCHANGED <<in_program_mode, calls, chunks, transport, device>>
    /\ UNCHANGED sess_rest
    /\ UNCHANGED exec_vars
    /\ UNCHANGED chan_vars
    /\ UNCHANGED pure_vars

\* Whether a read with nothing to read comes back: serial.Serial is opened
\* with timeout=timeout (line 163) and readline() returns b'' when it
\* expires; socket.socket (line 157) is left blocking and recv waits.
recv_returns_empty(kind) == kind = "serial"

\* The read finds nothing within the timeout and returns b''.
SessReadTimeout(t) ==
    /\ thread[t].pc = "read"
    /\ rx = <<>>
    /\ recv_returns_empty(transport)
    /\ thread' = [thread EXCEPT ![t] =
                    [@ EXCEPT !.pc = "returned", !.res = NoReply]]
    /\ cmd_lock' = _cmd_lock_exit(t, FALSE)
    /\ UNCHANGED <<in_program_mode, rx, calls, chunks, transport, device>>
    /\ UNCHANGED sess_rest
    /\ UNCHANGED exec_vars
    /\ UNCHANGED chan_vars
    /\ UNCHANGED pure_vars

\* The call of thread t ends: out is returned or raised to its caller.
SessFinish(t, out, ex) ==
    thread' = [thread EXCEPT ![t] =
                 [@ EXCEPT !.pc = "idle", !.outcome = out, !.explicit = ex,
                           !.res = NoReply]]

\* The call goes on to its next round trip.
SessContinue(t, ph, out) ==
    thread' = [thread EXCEPT ![t] =
                 [@ EXCEPT !.pc = "acquire", !.phase = ph, !.outcome = out,
                           !.res = NoReply]]

\* _execute_action('PRG') of enter_program_mode has returned or raised;
\* self._in_program_mode = True follows a return (lines 334-335).
SessPrgReturn(t) ==
    /\ t \in LocalThreads
    /\ thread[t].pc = "returned"
    /\ thread[t].phase = "prg"
    /\ LET action == _execute_action("PRG", thread[t].res.line)
       IN /\ in_program_mode' = enter_program_mode(action, in_program_mode)
          /\ IF action.kind # "return"
             THEN SessFinish(t, action, thread[t].explicit)
             ELSE IF thread[t].op = "enter"
             THEN SessFinish(t, action, TRUE)
             ELSE SessContinue(t, "target", Pending)
    /\ UNCHANGED <<cmd_lock, rx, calls, chunks, transport, device>>
    /\ UNCHANGED sess_rest
    /\ UNCHANGED exec_vars
    /\ UNCHANGED chan_vars
    /\ UNCHANGED pure_vars

\* response = self._execute_command(*command) has returned or raised
\* (line 289, or a direct call); lines 291-292 follow a return.
SessTargetReturn(t) ==
    /\ t \in LocalThreads
    /\ thread[t].pc = "returned"
    /\ thread[t].phase = "target"
    /\ LET response == _execute_command(<<thread[t].cmd>>, thread[t].res.line)
       IN IF /\ response.kind = "return"
             /\ thread[t].op = "pm"
             /\ ~thread[t].already_program
          THEN SessContinue(t, "epg", response)
          ELSE SessFinish(t, response, thread[t].explicit)
    /\ UNCHANGED <<cmd_lock, in_program_mode, rx, calls, chunks, transport,
                   device>>
    /\ UNCHANGED sess_rest
    /\ UNCHANGED exec_vars
    /\ UNCHANGED chan_vars
    /\ UNCHANGED pure_vars

\* _execute_action('EPG') of exit_program_mode has returned or raised;
\* self._in_program_mode = False follows a return (lines 339-340).
SessEpgReturn(t) ==
    /\ t \in LocalThreads
    /\ thread[t].pc = "returned"
    /\ thread[t].phase = "epg"
    /\ LET action == _execute_action("EPG", thread[t].res.line)
       IN /\ in_program_mode' = exit_program_mode(action, in_program_mode)
          /\ SessFinish(t, IF action.kind = "return" /\ thread[t].op = "pm"
                           THEN thread[t].outcome ELSE action,
                        thread[t].explicit)
    /\ UNCHANGED <<cmd_lock, rx, calls, chunks, transport, device>>
    /\ UNCHANGED sess_rest
    /\ UNCHANGED exec_vars
    /\ UNCHANGED chan_vars
    /\ UNCHANGED pure_vars

\* s.sendall(<the raw response>) in _client_listener, then the next recv.
SessRelaySend ==
    /\ thread[RelayThread].pc = "returned"
    /\ thread' = [thread EXCEPT ![RelayThread] =
                    [@ EXCEPT !.pc = "recv", !.res = NoReply]]
    /\ UNCHANGED <<cmd_lock, in_program_mode, rx, calls, chunks, transport,
                   device>>
    /\ UNCHANGED sess_rest
    /\ UNCHANGED exec_vars
    /\ UNCHANGED chan_vars
    /\ UNCHANGED pure_vars

NextSession ==
    \/ SessCallEnter(User)
    \/ SessCallExit(User)
    \/ SessCallProgramMode(Helper)
    \/ SessCallExecute(User)
    \/ SessRelayRecv
    \/ \E t \in Threads : SessAcquire(t)
    \/ \E t \in Threads : SessWrite(t)
    \/ DeviceAnswer
    \/ \E t \in Threads : SessRead(t)
    \/ \E t \in Threads : SessReadTimeout(t)
    \/ \E t \in LocalThreads : SessPrgReturn(t)
    \/ \E t \in LocalThreads : SessTargetReturn(t)
    \/ \E t \in LocalThreads : SessEpgReturn(t)
    \/ SessRelaySend

SpecSession == InitSession /\ [][NextSession]_vars

\* ------------------------------------------------------------------ C32
\* Thread b is in a helper call that read the session as Idle and has
\* written its EPG.
HelperIssuedEpg(b) ==
    /\ thread[b].op = "pm"
    /\ ~thread[b].already_program
    /\ thread[b].phase = "epg"
    /\ thread[b].pc \in {"read", "returned"}

\* C32: while the session one thread entered with enter_program_mode is in
\* force (its enter has succeeded, it has not called exit_program_mode),
\* no helper call of another thread that read the session as Idle issues
\* EPG.
C32_SessionNotExitedByOtherThread ==
    \A a, b \in LocalThreads :
        (a # b /\ thread[a].explicit) => ~HelperIssuedEpg(b)

\* ------------------------------------------------------------------ C34
\* No command is in flight: every thread is between calls, the lock is
\* free, the scanner has answered what it received and every answer has
\* been read.
Quiescent ==
    /\ \A t \in Threads : thread[t].pc \in {"idle", "recv"}
    /\ cmd_lock = NoHolder
    /\ device.pending = <<>>
    /\ rx = <<>>

\* C34: whenever no command is in flight, in_program_mode equals the
\* scanner's own program-mode state, whatever typed calls and relayed raw
\* commands came before.
C34_FlagMirrorsDevice ==
    Quiescent => in_program_mode = device.program

\* ------------------------------------------------------------------ C35
\* C35: the response _execute_command accepts for a command (first field
\* equal to the mnemonic, a value following) was produced by the scanner
\* in reply to that very round trip, not to an earlier one that ended by
\* timeout.
C35_ReplyAnswersOwnCommand ==
    \A t \in LocalThreads :
        ( /\ thread[t].pc = "returned"
          /\ _execute_command(<<SessFrame(t)>>, thread[t].res.line).kind
                = "return" ) =>
            thread[t].res.to = ReqId(t)

\* ------------------------------------------------------------------ C36
\* Fair scheduling: a thread inside the critical section keeps running,
\* and a thread waiting for the lock gets it if it is free again and
\* again.  Nothing is assumed of the scanner: it may never answer.
SessFair ==
    \A t \in Threads :
        /\ WF_vars(SessWrite(t))
        /\ WF_vars(SessRead(t))
        /\ WF_vars(SessReadTimeout(t))
        /\ SF_vars(SessAcquire(t))

SpecSessionFair == SpecSession /\ SessFair

\* C36: every round trip that has acquired the lock eventually releases
\* it, and every thread waiting for the lock eventually acquires it, on
\* the serial port and on the socket, even if the scanner never answers.
C36_LockEventuallyReleased ==
    \A t \in Threads :
        /\ (cmd_lock = t) ~> (cmd_lock # t)
        /\ (thread[t].pc = "acquire") ~> (thread[t].pc = "write")

\* ------------------------------------------------------------------ C37
\* C37: the echo check compares the response's first field with the
\* mnemonic as transmitted (uppercased), so a call whose mnemonic was given
\* in lowercase and whose response is the uppercase echo with a value
\* returns the result fields.
C37_EchoComparedAsTransmitted ==
    pure_fn = "_execute_command" => pure_out = Return(<<Str("5")>>)

\* ------------------------------------------------------------------ C38
\* The typed calls whose docstring says 'Requires program mode': those
\* that go through _execute_program_mode_command, and set_charge_time.
RequiresProgramMode == Bracketed \cup {"set_charge_time"}

\* C38: an operation documented as requiring program mode writes its
\* target command only while the session is ProgramMode (having issued PRG
\* first when it was called from Idle).
C38_TargetOnlyInProgramMode ==
    ( /\ op \in RequiresProgramMode
      /\ phase = "target"
      /\ pc[Main] \in {"write", "read"} ) => in_program_mode

\* ------------------------------------------------- the channel on the wire
\* Channel.from_cin_response as the class method runs it, bc125at.py
\* 137-143: cls(...) goes through Channel.__init__ and the assertions of
\* RadioState.__init__, with tone left at its default.
Channel_from_cin_response(r) ==
    Channel__init__(int(r[1]), r[2], int(r[3]) * FREQUENCY_SCALE, r[4][1],
                    NoTone, int(r[5]), r[6][1], bool_int(r[7]), bool_int(r[8]))

\* The valid Channels: those the constructor accepts, built with a tone
\* identifier or with a tone code.
WireChannels ==
    { c.value : c \in
        { b \in { Channel__init__(i, n, f, m, t, tc, d, l, p) :
                    i \in {1, TOTAL_CHANNELS},
                    n \in {<<>>, <<"Tower">>, NameOfLen(DISPLAY_WIDTH)},
                    f \in ChanFrequencies \cup {MAX_FREQUENCY_HZ},
                    m \in {"AUTO", "NFM"}, t \in {NoTone, "SEARCH"},
                    tc \in {0, 127}, d \in {"-10", "2"},
                    l \in BOOLEAN, p \in BOOLEAN } :
          b.kind = "return" } }

InitWire ==
    /\ EngineInit
    /\ SessIdle
    /\ ExecIdle
    /\ ChanIdle
    /\ pure_fn = "none"
    /\ pure_arg \in WireChannels
    /\ pure_out = Pending

\* BC125AT.Channel.from_cin_response(*pure_arg.to_response())
WireRoundTrip ==
    /\ pure_fn = "none"
    /\ pure_fn' = "from_cin_response"
    /\ pure_out' = Channel_from_cin_response(to_response(pure_arg))
    /\ UNCHANGED pure_arg
    /\ UNCHANGED engine_vars
    /\ UNCHANGED exec_vars
    /\ UNCHANGED sess_vars
    /\ UNCHANGED chan_vars

NextWire == WireRoundTrip

SpecWire == InitWire /\ [][NextWire]_vars

\* ------------------------------------------------------------------ C39
\* C39: for a valid Channel, from_cin_response(to_response(channel)) has
\* the same index, name, modulation, tone code, delay, lockout and
\* priority, and the same frequency when that is a multiple of
\* FREQUENCY_SCALE, else the frequency truncated to the multiple below.
C39_WireRoundTrip ==
    pure_fn = "from_cin_response" =>
        /\ pure_out.kind = "return"
        /\ LET c == pure_arg
               d == pure_out.value
           IN /\ d.index = c.index
              /\ d.name = c.name
              /\ d.modulation = c.modulation
              /\ d.tone_code = c.tone_code
              /\ d.delay = c.delay
              /\ d.lockout = c.lockout
              /\ d.priority = c.priority
              /\ d.frequency = IF c.frequency % FREQUENCY_SCALE = 0
                               THEN c.frequency
                               ELSE c.frequency - (c.frequency % FREQUENCY_SCALE)

\* A locked-out channel 50 Hz above the lower band edge has come back at
\* the band edge, still locked out and without priority.
C39_Witness ==
    /\ pure_fn = "from_cin_response"
    /\ pure_arg.frequency = MIN_FREQUENCY_HZ + 50
    /\ pure_arg.lockout /\ ~pure_arg.priority
    /\ pure_arg.name = <<"Tower">>
    /\ pure_out.kind = "return"
    /\ pure_out.value.frequency = MIN_FREQUENCY_HZ
    /\ pure_out.value.lockout /\ ~pure_out.value.priority

\* ------------------------------------------------------ key sequences
\* press_key_sequence of the current module (__init__.py 555-563) and of
\* the older module bearcat.bc125at (bc125at.py 931-940), one loop
\* iteration a step.  trips holds the KEY round trips made so far, each
\* with the fields sent and the way press_key ended.
MaxKeys == 3
KeyChars == {"1", "h", "x"}
KeyStrings == UNION {[1..n -> KeyChars] : n \in 0..MaxKeys}
KeyModules == {"bearcat", "bearcat.bc125at"}

\* What the scanner may answer to a KEY command; <<>> is a read that timed
\* out.
KeyLines == { <<"KEY", COMMA, "OK", CR>>, <<"KEY", COMMA, "NG", CR>>,
              <<"KEY", COMMA, "OK", COMMA, "1", CR>>, <<"ERR", CR>>, <<>> }

InitKeys ==
    /\ EngineInit
    /\ SessIdle
    /\ ExecIdle
    /\ ChanIdle
    /\ pure_fn = "none"
    /\ pure_arg \in [keys : KeyStrings, module : KeyModules]
    /\ pure_out = Pending

\* The value of press_key(k): _key_action returns nothing (line 544), so
\* press_key returns None when it does not raise.
press_key(k, line) ==
    LET key == Str(Upper(k))
    IN IF ~_key_action_assert(key) THEN Raise("AssertionError")
       ELSE _set_value(_execute_command(<<"KEY">>, line))

\* The round trip press_key(k) makes, if its assertions let it.
KeyTrips(k, line) ==
    IF _key_action_assert(Str(Upper(k)))
    THEN << [fields |-> <<"KEY", Upper(k), "P">>,
             result |-> press_key(k, line).kind] >>
    ELSE <<>>

CallPressKeySequence ==
    /\ pure_fn = "none"
    /\ pure_fn' = "press_key_sequence"
    /\ UNCHANGED <<pure_arg, pure_out>>
    /\ UNCHANGED engine_vars
    /\ UNCHANGED exec_vars
    /\ UNCHANGED sess_vars
    /\ UNCHANGED chan_vars

\* for k in keys: self.press_key(k)            (__init__.py 562-563)
PressNextKey ==
    /\ pure_fn = "press_key_sequence"
    /\ pure_arg.module = "bearcat"
    /\ pure_out = Pending
    /\ Len(trips) < Len(pure_arg.keys)
    /\ \E line \in KeyLines :
        LET k == pure_arg.keys[Len(trips) + 1]
            r == press_key(k, line)
        IN /\ trips' = trips \o KeyTrips(k, line)
           /\ pure_out' = IF r.kind = "return" THEN Pending ELSE r
    /\ UNCHANGED <<pure_fn, pure_arg>>
    /\ UNCHANGED <<cmd_lock, in_program_mode, devbuf, rx, pc, req, wpos, res,
                   chunks, op, cmd, args, input, phase, already_program,
                   outcome, calls, explicit>>
    /\ UNCHANGED exec_vars
    /\ UNCHANGED sess_vars
    /\ UNCHANGED chan_vars

\* for k in keys:
\*     if not self.press_key(k): raise UnexpectedResultError(...)
\* (bc125at.py 938-940): not None is True.
PressNextKeyLegacy ==
    /\ pure_fn = "press_key_sequence"
    /\ pure_arg.module = "bearcat.bc125at"
    /\ pure_out = Pending
    /\ Len(trips) < Len(pure_arg.keys)
    /\ \E line \in KeyLines :
        LET k == pure_arg.keys[Len(trips) + 1]
            r == press_key(k, line)
        IN /\ trips' = trips \o KeyTrips(k, line)
           /\ pure_out' = IF r.kind = "return"
                          THEN Raise("UnexpectedResultError")
                          ELSE r
    /\ UNCHANGED <<pure_fn, pure_arg>>
    /\ UNCHANGED <<cmd_lock, in_program_mode, devbuf, rx, pc, req, wpos, res,
                   chunks, op, cmd, args, input, phase, already_program,
                   outcome, calls, explicit>>
    /\ UNCHANGED exec_vars
    /\ UNCHANGED sess_vars
    /\ UNCHANGED chan_vars

\* The loop has run out of characters: press_key_sequence returns.
PressKeySequenceReturn ==
    /\ pure_fn = "press_key_sequence"
    /\ pure_out = Pending
    /\ Len(trips) = Len(pure_arg.keys)
    /\ pure_out' = Return(<<>>)
    /\ UNCHANGED <<pure_fn, pure_arg>>
    /\ UNCHANGED engine_vars
    /\ UNCHANGED exec_vars
    /\ UNCHANGED sess_vars
    /\ UNCHANGED chan_vars

NextKeys ==
    \/ CallPressKeySequence
    \/ PressNextKey
    \/ PressNextKeyLegacy
    \/ PressKeySequenceReturn

SpecKeys == InitKeys /\ [][NextKeys]_vars

\* ------------------------------------------------------------------ C40
\* C40: press_key_sequence(keys) makes one KEY press round trip per
\* character of keys, in the order of the string; it raises only if one of
\* those presses failed, and then no later key has been sent.
C40_OnePressPerKeyInOrder ==
    pure_fn = "press_key_sequence" =>
        /\ Len(trips) <= Len(pure_arg.keys)
        /\ \A i \in 1..Len(trips) :
              /\ trips[i].fields = <<"KEY", Upper(pure_arg.keys[i]), "P">>
              /\ trips[i].result # "return" => i = Len(trips)
        /\ pure_out.kind = "return" =>
              /\ Len(trips) = Len(pure_arg.keys)
              /\ \A i \in 1..Len(trips) : trips[i].result = "return"
        /\ pure_out.kind \notin {"pending", "return"} =>
              \/ /\ trips # <<>>
                 /\ trips[Len(trips)].result # "return"
              \/ /\ Len(trips) < Len(pure_arg.keys)
                 /\ ~_key_action_assert(
                        Str(Upper(pure_arg.keys[Len(trips) + 1])))

====
